---- MODULE Spec2Model ----
(***************************************************************************)
(* A model of the satellite / climate acquisition pipeline:                *)
(*   src/src/fetch_satellite.py  (tiles, raster cache, water bodies)       *)
(*   src/src/fetch_climate.py    (weather fetch, precipitation fallback)   *)
(*   src/src/assemble_json.py    (validator, record assembly)              *)
(*   src/main.py                 (top-level run)                           *)
(* Real numbers are exact rationals <<numerator, denominator>>; rasters    *)
(* are scaled down from 1024 x 1024 to the grid of expected_shape.         *)
(***************************************************************************)
EXTENDS Integers, Sequences, FiniteSets, TLC

VARIABLES
    entry,      \* which script's __main__ block is running
    run,        \* number of the current run of that script
    pc,         \* position of the run
    cache,      \* data/sentinel/tile_<id>/<file>: the on-disk raster cache
    tile,       \* per tile worker: its return value or exception, its remote calls
    sat,        \* what fetch_water_data gave the current run
    prev,       \* what fetch_water_data gave the previous run
    om,         \* what fetch_openmeteo_data returned
    chirps,     \* fetch_chirps_data: the backward walk
    climate,    \* what fetch_climate_data returned
    vin,        \* the arguments of validate_data
    vout,       \* what validate_data returned
    output      \* the output file and assemble_json's return value

vars == <<entry, run, pc, cache, tile, sat, prev, om, chirps, climate, vin, vout, output>>

\* ------------------------------------------------------------------ bounds

\* Runs of a script that are explored, one after the other, on the same disk.
MaxRuns == 2

\* ----------------------------------------------------------------- numbers

Abs(x) == IF x < 0 THEN -x ELSE x

Min(S) == CHOOSE x \in S : \A y \in S : x <= y

RECURSIVE GCD(_, _)
GCD(a, b) == IF b = 0 THEN a ELSE GCD(b, a % b)

\* The rational n/d (d > 0) in lowest terms.
Frac(n, d) == LET g == GCD(Abs(n), d) IN <<n \div g, d \div g>>

Zero == <<0, 1>>
FracOfInt(i) == <<i, 1>>
FracLT(a, b) == a[1] * b[2] < b[1] * a[2]
FracAdd(a, b) == Frac(a[1] * b[2] + b[1] * a[2], a[2] * b[2])
FracMin(a, b) == IF FracLT(b, a) THEN b ELSE a
FracMax(a, b) == IF FracLT(a, b) THEN b ELSE a

\* Sums by halves, so that the depth of the recursion stays logarithmic.
RECURSIVE SumRange(_, _, _)
SumRange(s, lo, hi) ==
    IF lo > hi THEN 0
    ELSE IF lo = hi THEN s[lo]
    ELSE LET mid == (lo + hi) \div 2
         IN  SumRange(s, lo, mid) + SumRange(s, mid + 1, hi)

SumSeq(s) == SumRange(s, 1, Len(s))

RECURSIVE SumFracRange(_, _, _)
SumFracRange(s, lo, hi) ==
    IF lo > hi THEN Zero
    ELSE IF lo = hi THEN s[lo]
    ELSE LET mid == (lo + hi) \div 2
         IN  FracAdd(SumFracRange(s, lo, mid), SumFracRange(s, mid + 1, hi))

SumFracs(s) == SumFracRange(s, 1, Len(s))

RECURSIVE SumOver(_, _)
SumOver(S, f) ==
    IF S = {} THEN 0
    ELSE LET x == CHOOSE y \in S : TRUE IN f[x] + SumOver(S \ {x}, f)

\* np.mean of a non-empty list of rationals.
MeanFracs(s) == LET t == SumFracs(s) IN Frac(t[1], t[2] * Len(s))

RECURSIVE Concat(_)
Concat(ss) == IF ss = <<>> THEN <<>> ELSE Head(ss) \o Concat(Tail(ss))

\* ------------------------------------------------------- fetch_satellite.py

\* tiles: the four quadrants of the area, numbered by enumerate(tiles, 1).
Tiles == 1..4

\* expected_shape=(1024, 1024), scaled down: rows, columns.
expected_shape == <<2, 3>>

FileNames == <<"water_mask.tif", "turbidity.tif", "chlorophyll.tif">>
mask_tiff == "water_mask.tif"
turbidity_tiff == "turbidity.tif"
chlorophyll_tiff == "chlorophyll.tif"

\* A path that holds no file.
NoFile == [exists |-> FALSE, shape |-> <<0, 0>>, dtype |-> "none", data |-> <<>>]

\* A GeoTIFF of one band, its values in row-major order.
Tiff(dtype, data) ==
    [exists |-> TRUE, shape |-> expected_shape, dtype |-> dtype, data |-> data]

EmptyFolder == [f \in {mask_tiff, turbidity_tiff, chlorophyll_tiff} |-> NoFile]

\* "<word>" in tiff_path, for the paths <tile_folder>/<file name>.
InPath(word, tiff_path) ==
    \/ word = "water_mask" /\ tiff_path = mask_tiff
    \/ word = "turbidity" /\ tiff_path = turbidity_tiff
    \/ word = "chlorophyll" /\ tiff_path = chlorophyll_tiff

\* validate_tiff: `A and B or C` groups as `(A and B) or C`, so the upper bound
\* of each range test applies to every file, whatever its name.
validate_tiff(tiff_path, file, expected_dtype) ==
    LET data == file.data
        any_below(b) == \E i \in DOMAIN data : data[i] < b
        any_above(b) == \E i \in DOMAIN data : data[i] > b
    IN  IF ~file.exists THEN FALSE                   \* rasterio.open raises
        ELSE IF file.shape # expected_shape THEN FALSE
        ELSE IF file.dtype # expected_dtype THEN FALSE
        ELSE IF \A i \in DOMAIN data : data[i] = 0 THEN FALSE
        ELSE IF InPath("water_mask", tiff_path)
                    /\ ~(\A i \in DOMAIN data : data[i] \in {0, 1}) THEN FALSE
        ELSE IF (InPath("turbidity", tiff_path) /\ any_below(-1)) \/ any_above(1)
             THEN FALSE
        ELSE IF (InPath("chlorophyll", tiff_path) /\ any_below(0)) \/ any_above(100)
             THEN FALSE
        ELSE TRUE

\* The three validations of the cache test, joined by `and`.
CachedTiffsValidate(folder) ==
    /\ validate_tiff(mask_tiff, folder[mask_tiff], "uint8")
    /\ validate_tiff(turbidity_tiff, folder[turbidity_tiff], "float32")
    /\ validate_tiff(chlorophyll_tiff, folder[chlorophyll_tiff], "float32")

\* all(os.path.isfile(f) for f in tiff_files)
AllFilesExist(folder) == \A i \in DOMAIN FileNames : folder[FileNames[i]].exists

\* Python's all() handed a bool instead of an iterable:
\* TypeError: 'bool' object is not iterable.
PyAllOfBool(b) == [raised |-> TRUE, value |-> FALSE]

\* The cache test of fetch_water_data_for_tile: "hit", "miss" or "TypeError".
\* `and` evaluates its right operand only when the left one is true.
CacheTest(folder) ==
    IF ~AllFilesExist(folder) THEN "miss"
    ELSE LET a == PyAllOfBool(CachedTiffsValidate(folder))
         IN  IF a.raised THEN "TypeError"
             ELSE IF a.value THEN "hit" ELSE "miss"

\* ---- connected components: scipy.ndimage.label with a 3 x 3 structure of ones

Pixels == 1..(expected_shape[1] * expected_shape[2])
RowOf(p) == (p - 1) \div expected_shape[2]
ColOf(p) == (p - 1) % expected_shape[2]

\* Adjacent for the default structure of label: the four edge neighbours.
Adjacent_FourConnected(p, q) == Abs(RowOf(p) - RowOf(q)) + Abs(ColOf(p) - ColOf(q)) <= 1

\* structure = np.ones((3, 3)): the eight neighbours and the pixel itself.
Adjacent(p, q) == Abs(RowOf(p) - RowOf(q)) <= 1 /\ Abs(ColOf(p) - ColOf(q)) <= 1

RECURSIVE Grow(_, _)
Grow(S, water) ==
    LET N == S \cup {q \in water : \E p \in S : Adjacent(p, q)}
    IN  IF N = S THEN S ELSE Grow(N, water)

\* label(mask, structure): components numbered in scan order of their first pixel.
label(mask) ==
    LET water == {p \in Pixels : mask[p]}
        first == [p \in water |-> Min(Grow({p}, water))]
        seeds == {first[p] : p \in water}
    IN  [labeled |-> [p \in Pixels |->
                        IF p \in water
                        THEN Cardinality({s \in seeds : s <= first[p]})
                        ELSE 0],
         n |-> Cardinality(seeds)]

\* The range check of a component's mean turbidity: max(0, min(mean, 1)).
ClampTurbidity(mean) ==
    IF FracLT(mean, FracOfInt(-1)) \/ FracLT(FracOfInt(1), mean)
    THEN FracMax(Zero, FracMin(mean, FracOfInt(1)))
    ELSE mean

\* The range check of a component's mean chlorophyll: max(0, min(mean, 100)).
ClampChlorophyll(mean) ==
    IF FracLT(mean, Zero) \/ FracLT(FracOfInt(100), mean)
    THEN FracMax(Zero, FracMin(mean, FracOfInt(100)))
    ELSE mean

\* One water body of a tile: the dict appended to results.
WaterBody(tile_id, water_id, labeled, turbidity, chlorophyll) ==
    LET pixels == {p \in Pixels : labeled[p] = water_id}
        count == Cardinality(pixels)
        mean_turbidity ==
            IF pixels # {} THEN Frac(SumOver(pixels, turbidity), count) ELSE Zero
        mean_chlorophyll ==
            IF pixels # {} THEN Frac(SumOver(pixels, chlorophyll), count) ELSE Zero
    IN  [id |-> <<tile_id, water_id>>,
         area_m2 |-> count * 100,
         geometry |-> pixels,
         turbidity |-> ClampTurbidity(mean_turbidity),
         chlorophyll |-> ClampChlorophyll(mean_chlorophyll)]

\* "Process TIFFs": the water bodies of the three rasters of a tile folder.
ProcessTiffs(folder, tile_id) ==
    LET mask == [p \in Pixels |-> folder[mask_tiff].data[p] = 1]
        l == label(mask)
    IN  [results |-> [water_id \in 1..l.n |->
                        WaterBody(tile_id, water_id, l.labeled,
                                  folder[turbidity_tiff].data,
                                  folder[chlorophyll_tiff].data)],
         n |-> l.n]

\* ---- the imagery service, as one tile worker meets it

\* array.astype(dtype) of the values used here.
AsType(dtype, v) == IF dtype = "uint8" THEN v % 256 ELSE v

\* What request.get_data can hand back: something that is no list of dicts, or
\* a list whose first element maps output names to arrays.
NotAList == [kind |-> "other", dict |-> <<>>]
DataDict(d) == [kind |-> "list", dict |-> d]

\* Two bodies of one pixel each, every value inside [0, 1].
RastersA ==
    DataDict([f \in {mask_tiff, turbidity_tiff, chlorophyll_tiff} |->
        CASE f = mask_tiff -> <<1, 0, 0, 0, 0, 1>>
          [] f = turbidity_tiff -> <<1, 0, 0, 0, 0, -1>>
          [] OTHER -> <<1, 0, 0, 0, 0, 1>>])

\* One body of two pixels, chlorophyll in mg/m3 above 1.
RastersB ==
    DataDict([f \in {mask_tiff, turbidity_tiff, chlorophyll_tiff} |->
        CASE f = mask_tiff -> <<1, 1, 0, 0, 0, 0>>
          [] f = turbidity_tiff -> <<0, 1, 0, 0, 0, 0>>
          [] OTHER -> <<30, 50, 0, 0, 0, 0>>])

\* A response without the water_mask output.
NoMaskDict ==
    DataDict([f \in {turbidity_tiff, chlorophyll_tiff} |-> <<0, 1, 0, 0, 0, 0>>])

\* What the imagery service may do to one tile worker: the catalog search fails,
\* finds nothing or finds a scene; each of the three possible get_data calls
\* succeeds or raises; the data a successful call returns.
Scenario(catalog, attempts, data) ==
    [catalog |-> catalog, attempts |-> attempts, data |-> data]

\* The get_data calls of a tile: how many raise before one succeeds.
AllOk == [i \in 1..3 |-> "ok"]
FailsThenOk(k) == [i \in 1..3 |-> IF i <= k THEN "exc" ELSE "ok"]
AllFail == [i \in 1..3 |-> "exc"]

\* The scenarios the four workers of a run draw from: one for each way through
\* the fetch (catalog error, no imagery, retries exhausted, a response that is
\* no list, a response without mask, rasters at the first, second, third call).
TileScenarios ==
    {Scenario("error", AllOk, NotAList),
     Scenario("none", AllOk, NotAList),
     Scenario("found", AllFail, NotAList),
     Scenario("found", AllOk, NotAList),
     Scenario("found", FailsThenOk(2), NoMaskDict),
     Scenario("found", AllOk, RastersA),
     Scenario("found", FailsThenOk(1), RastersB)}

\* RetryGetData without the break: all three calls are made and slept after.
RetryGetData_NoBreak(attempts, attempt) ==
    [ok |-> \E i \in DOMAIN attempts : attempts[i] = "ok", calls |-> 3, sleeps |-> 3]

\* for attempt in range(3): get_data, break on success, return after the third
\* failure, time.sleep(2) after the first two.
RECURSIVE RetryGetData(_, _)
RetryGetData(attempts, attempt) ==
    IF attempts[attempt + 1] = "ok"
    THEN [ok |-> TRUE, calls |-> attempt + 1, sleeps |-> attempt]
    ELSE IF attempt = 2
         THEN [ok |-> FALSE, calls |-> attempt + 1, sleeps |-> attempt]
         ELSE RetryGetData(attempts, attempt + 1)

\* "Saving API response as TIFFs": every output of data_dict is written.
SaveTiffs(folder, dict) ==
    [f \in DOMAIN folder |->
        IF f \in DOMAIN dict
        THEN LET dtype == IF f = mask_tiff THEN "uint8" ELSE "float32"
             IN  Tiff(dtype, [i \in DOMAIN dict[f] |-> AsType(dtype, dict[f][i])])
        ELSE folder[f]]

\* What a tile worker leaves behind: its return value (results, n) or the
\* exception it raised, the way it took, its remote calls, and the tile folder.
TileOutcome(status, path, results, n, catalogCalls, requestCalls, sleeps, folder) ==
    [ret |-> [status |-> status, path |-> path, results |-> results, n |-> n,
              catalogCalls |-> catalogCalls, requestCalls |-> requestCalls,
              sleeps |-> sleeps, attempts |-> <<>>, rank |-> 0],
     folder |-> folder]

Pending ==
    [status |-> "pending", path |-> "none", results |-> <<>>, n |-> 0,
     catalogCalls |-> 0, requestCalls |-> 0, sleeps |-> 0, attempts |-> <<>>,
     rank |-> 0]

\* "Verify file paths" and "Process TIFFs", after a cache hit or a fetch.
VerifyAndProcess(folder, tile_id, path, catalogCalls, requestCalls, sleeps) ==
    IF ~AllFilesExist(folder)
    THEN TileOutcome("returned", "files_missing", <<>>, 0,
                     catalogCalls, requestCalls, sleeps, folder)
    ELSE LET p == ProcessTiffs(folder, tile_id)
         IN  TileOutcome("returned", path, p.results, p.n,
                         catalogCalls, requestCalls, sleeps, folder)

\* "Fetching new Sentinel-2 data": the else branch of the cache test.
FetchNew(folder, tile_id, sc) ==
    IF sc.catalog = "error"
    THEN TileOutcome("returned", "catalog_error", <<>>, 0, 1, 0, 0, folder)
    ELSE IF sc.catalog = "none"
    THEN TileOutcome("returned", "no_imagery", <<>>, 0, 1, 0, 0, folder)
    ELSE LET r == RetryGetData(sc.attempts, 0)
         IN  IF ~r.ok
             THEN TileOutcome("returned", "retries_exhausted", <<>>, 0,
                              1, r.calls, r.sleeps, folder)
             ELSE IF sc.data.kind # "list"
             THEN TileOutcome("returned", "invalid_response", <<>>, 0,
                              1, r.calls, r.sleeps, folder)
             ELSE LET saved == IF mask_tiff \in DOMAIN sc.data.dict
                               THEN SaveTiffs(folder, sc.data.dict)
                               ELSE folder
                  IN  VerifyAndProcess(saved, tile_id, "fetched", 1, r.calls, r.sleeps)

\* fetch_water_data_for_tile(bbox, tile_id) on the tile's folder.
fetch_water_data_for_tile(folder, tile_id, sc) ==
    LET test == CacheTest(folder)
    IN  IF test = "TypeError"
        THEN TileOutcome("raised", "TypeError", <<>>, 0, 0, 0, 0, folder)
        ELSE IF test = "hit"
        THEN VerifyAndProcess(folder, tile_id, "cached", 0, 0, 0)
        ELSE FetchNew(folder, tile_id, sc)

\* The tiles in the order in which their workers ended.
RECURSIVE ByRank(_, _)
ByRank(tile_results, k) ==
    IF k > Cardinality(Tiles) THEN <<>>
    ELSE LET ended == {t \in Tiles : tile_results[t].rank = k}
         IN  (IF ended = {} THEN <<>>
              ELSE LET t == CHOOSE u \in ended : TRUE IN <<tile_results[t]>>)
             \o ByRank(tile_results, k + 1)

\* MergeTiles that takes the results as the workers end (as_completed) when
\* that order is known, not in the order of the tiles.
MergeTiles_AsCompleted(tile_results) ==
    LET ordered == ByRank(tile_results, 1)
        all_results ==
            IF Len(ordered) = Cardinality(Tiles)
            THEN Concat([i \in DOMAIN ordered |-> ordered[i].results])
            ELSE Concat([t \in Tiles |-> tile_results[t].results])
        total_water_bodies == SumSeq([t \in Tiles |-> tile_results[t].n])
        areas == [i \in DOMAIN all_results |-> all_results[i].area_m2]
        turb == [i \in DOMAIN all_results |-> all_results[i].turbidity]
        chl == [i \in DOMAIN all_results |-> all_results[i].chlorophyll]
    IN  [status |-> "returned",
         summary |-> [total_water_bodies |-> total_water_bodies,
                      total_area_m2 |-> SumSeq(areas),
                      avg_turbidity |->
                          IF all_results # <<>> THEN MeanFracs(turb) ELSE Zero,
                      avg_chlorophyll |->
                          IF all_results # <<>> THEN MeanFracs(chl) ELSE Zero],
         results |-> all_results]

\* MergeTiles whose averages are taken without the test for an empty list:
\* np.mean([]) is NaN.
MergeTiles_NoEmptyDefault(tile_results) ==
    LET all_results == Concat([t \in Tiles |-> tile_results[t].results])
        turb == [i \in DOMAIN all_results |-> all_results[i].turbidity]
        chl == [i \in DOMAIN all_results |-> all_results[i].chlorophyll]
    IN  [status |-> "returned",
         summary |-> [total_water_bodies |-> Len(all_results),
                      total_area_m2 |->
                          SumSeq([i \in DOMAIN all_results |-> all_results[i].area_m2]),
                      avg_turbidity |->
                          IF all_results # <<>> THEN MeanFracs(turb) ELSE <<0, 0>>,
                      avg_chlorophyll |->
                          IF all_results # <<>> THEN MeanFracs(chl) ELSE <<0, 0>>],
         results |-> all_results]

\* fetch_water_data, after the pool: the merge of the tile results in tile
\* order and the summary.
MergeTiles(tile_results) ==
    LET all_results == Concat([t \in Tiles |-> tile_results[t].results])
        total_water_bodies == SumSeq([t \in Tiles |-> tile_results[t].n])
        areas == [i \in DOMAIN all_results |-> all_results[i].area_m2]
        turb == [i \in DOMAIN all_results |-> all_results[i].turbidity]
        chl == [i \in DOMAIN all_results |-> all_results[i].chlorophyll]
    IN  [status |-> "returned",
         summary |-> [total_water_bodies |-> total_water_bodies,
                      total_area_m2 |-> SumSeq(areas),
                      avg_turbidity |->
                          IF all_results # <<>> THEN MeanFracs(turb) ELSE Zero,
                      avg_chlorophyll |->
                          IF all_results # <<>> THEN MeanFracs(chl) ELSE Zero],
         results |-> all_results]

NoSat == [status |-> "none", summary |-> <<>>, results |-> <<>>]
SatRaised == [status |-> "raised", summary |-> <<>>, results |-> <<>>]

\* --------------------------------------------------------- fetch_climate.py

\* openmeteo_forecast_days, the forecast horizon of config.toml, in days.
openmeteo_forecast_days == 2

\* Hours of a day bucket of the forecast.
HoursPerDay == 24

\* Times are minutes; today's 00:00 UTC, well after the epoch.
DayMinutes == HoursPerDay * 60
Midnight == 10 * DayMinutes

\* Python values that are told apart by type: None, a float, a str, a dict
\* (a function on its keys), a list, a tuple.
PyNone == [type |-> "NoneType", v |-> <<>>]
PyFloat(x) == [type |-> "float", v |-> x]
PyStr(x) == [type |-> "str", v |-> x]
PyDict(d) == [type |-> "dict", v |-> d]
PyList(l) == [type |-> "list", v |-> l]
PyTuple(t) == [type |-> "tuple", v |-> t]

\* bool(x) of such a value.
Truthy(x) ==
    CASE x.type = "NoneType" -> FALSE
      [] x.type = "float" -> x.v # Zero
      [] x.type = "dict" -> DOMAIN x.v # {}
      [] OTHER -> x.v # <<>>

\* float('nan'), and np.isnan.
NaN == <<0, 0>>
IsNaN(v) == v[2] = 0

\* variable_map: the position of each variable in the response, from 1.
variable_map ==
    [precipitation |-> 1, temperature_2m |-> 2, relative_humidity_2m |-> 3,
     soil_moisture_0_to_1cm |-> 4, wind_speed_10m |-> 5,
     et0_fao_evapotranspiration |-> 6]

\* One block of the response (Hourly() or Minutely15()): None, or a first
\* time, an interval and one series of values per variable.
NoBlock == [present |-> FALSE, time0 |-> 0, interval |-> 0, vars |-> <<>>]
Block(time0, interval, precipitation, others) ==
    [present |-> TRUE, time0 |-> time0, interval |-> interval,
     vars |-> [k \in 1..6 |-> IF k = 1 THEN precipitation ELSE others]]

\* pd.date_range(start, end, freq, inclusive="left"): one time per value.
BlockTimes(block) ==
    [i \in 1..Len(block.vars[1]) |-> block.time0 + (i - 1) * block.interval]

\* Series of n values.
Rainy(n) == [i \in 1..n |-> FracOfInt(i % 3)]
Dry(n) == [i \in 1..n |-> Zero]
AllNaN(n) == [i \in 1..n |-> NaN]
Gappy(n) == [i \in 1..n |-> IF i % 2 = 0 THEN NaN ELSE FracOfInt(3)]
Steady(n) == [i \in 1..n |-> FracOfInt(20)]

\* The hourly block spans yesterday (past_days) and the forecast days, today
\* being the first of them.
HourlyLen == HoursPerDay * (1 + openmeteo_forecast_days)
HourlyBlock(precipitation) ==
    Block(Midnight - DayMinutes, 60, precipitation, Steady(Len(precipitation)))
MinutelyBlock == Block(Midnight, 15, Rainy(8), Steady(8))

\* What the weather service may answer: the call raises, or a response with
\* its hourly and 15-minute blocks, read at the time `now`.
OmResponse(raises, hourly, minutely, now) ==
    [raises |-> raises, hourly |-> hourly, minutely |-> minutely, now |-> now]

OmScenarios ==
    {OmResponse(TRUE, NoBlock, NoBlock, Midnight + 90),
     OmResponse(FALSE, NoBlock, NoBlock, Midnight + 90),
     OmResponse(FALSE, HourlyBlock(Rainy(HourlyLen)), MinutelyBlock, Midnight + 50),
     OmResponse(FALSE, HourlyBlock(Rainy(HourlyLen)), NoBlock, Midnight + 90),
     OmResponse(FALSE, HourlyBlock(Gappy(HourlyLen)), NoBlock, Midnight + 90),
     OmResponse(FALSE, HourlyBlock(Dry(HourlyLen)), MinutelyBlock, Midnight + 50),
     OmResponse(FALSE, HourlyBlock(AllNaN(HourlyLen)), NoBlock, Midnight + 90),
     OmResponse(FALSE, HourlyBlock(Rainy(HoursPerDay)), NoBlock, Midnight + 90),
     OmResponse(FALSE, HourlyBlock(<<>>), MinutelyBlock, Midnight + 50),
     OmResponse(FALSE, HourlyBlock(<<>>), NoBlock, Midnight + 90)}

\* The series of a variable as the function stores it: zeros when the values
\* are all NaN (np.all of nothing is true), else the values with NaN as 0.
CleanSeries(values, ntimes) ==
    IF \A i \in DOMAIN values : IsNaN(values[i])
    THEN [i \in 1..ntimes |-> Zero]
    ELSE [i \in DOMAIN values |-> IF IsNaN(values[i]) THEN Zero ELSE values[i]]

\* HistoricalData with the degenerate-series test left out: an all-zero or
\* empty series is handed on as data.
HistoricalData_KeepsDegenerate(hourly) ==
    PyDict([precipitation |->
                CleanSeries(hourly.vars[variable_map.precipitation],
                            Len(BlockTimes(hourly)))])

\* historical_data, of which fetch_climate_data reads "precipitation" only:
\* None when that series is empty or all zero.
HistoricalData(hourly) ==
    LET precipitation ==
            CleanSeries(hourly.vars[variable_map.precipitation],
                        Len(BlockTimes(hourly)))
    IN  IF precipitation = <<>> \/ \A i \in DOMAIN precipitation : precipitation[i] = Zero
        THEN PyNone
        ELSE PyDict([precipitation |-> precipitation])

\* LatestIdx that takes the last sample of the series, whatever the time.
LatestIdx_LastSample(times, now) == Len(times)

\* max(range(len(times)), key=...): the first index whose key is largest, the
\* key being the time when it is not after now and datetime.min otherwise.
LatestIdx(times, now) ==
    LET key(i) == IF times[i] <= now THEN times[i] ELSE -1
    IN  CHOOSE i \in DOMAIN times :
            /\ \A j \in DOMAIN times : key(j) <= key(i)
            /\ \A j \in DOMAIN times : j < i => key(j) < key(i)

\* float(x or 0)
FloatOr0(x) == IF x = Zero THEN Zero ELSE x

\* current_data of a block: the sample at latest_idx.
CurrentOf(block, now) ==
    LET times == BlockTimes(block)
        latest_idx == LatestIdx(times, now)
    IN  [time |-> FracOfInt(times[latest_idx]),
         precipitation |-> FloatOr0(block.vars[1][latest_idx]),
         temperature_2m |-> FloatOr0(block.vars[2][latest_idx]),
         relative_humidity_2m |-> FloatOr0(block.vars[3][latest_idx]),
         soil_moisture_0_to_1cm |-> FloatOr0(block.vars[4][latest_idx]),
         wind_speed_10m |-> FloatOr0(block.vars[5][latest_idx]),
         evapotranspiration |-> FloatOr0(block.vars[6][latest_idx])]

\* values[-k:], and values[a:b] with positions from 0, as Python slices.
LastK(values, k) ==
    LET n == Len(values) IN IF n <= k THEN values ELSE SubSeq(values, n - k + 1, n)
Slice(values, a, b) ==
    LET hi == IF b < Len(values) THEN b ELSE Len(values)
    IN  IF a >= hi THEN <<>> ELSE SubSeq(values, a + 1, hi)

\* np.mean of a list: NaN for an empty one.
NpMean(values) == IF values = <<>> THEN NaN ELSE MeanFracs(values)

\* forecast_data[key]: the last forecast_days * 24 values of the hourly series.
ForecastSeries(hourly, idx) ==
    CleanSeries(LastK(hourly.vars[idx], openmeteo_forecast_days * HoursPerDay),
                openmeteo_forecast_days * HoursPerDay)

\* daily_forecast: one dict per day, dated from tomorrow on.
DailyForecast(hourly, now) ==
    [d \in 1..openmeteo_forecast_days |->
        LET day == d - 1
            start_idx == day * HoursPerDay
            end_idx == (day + 1) * HoursPerDay
            today == (now \div DayMinutes) * DayMinutes
            part(idx) == Slice(ForecastSeries(hourly, idx), start_idx, end_idx)
        IN  PyDict([date |-> FracOfInt(today + (day + 1) * DayMinutes),
                    precipitation_total_mm |-> SumFracs(part(1)),
                    temperature_mean_c |-> NpMean(part(2)),
                    relative_humidity_mean_percent |-> NpMean(part(3)),
                    soil_moisture_mean_m3_m3 |-> NpMean(part(4)),
                    wind_speed_mean_kmh |-> NpMean(part(5)),
                    evapotranspiration_mean_mm |-> NpMean(part(6))])]

\* (None, None, None)
OmNothing(r) ==
    [called |-> TRUE, response |-> r,
     historical |-> PyNone, current |-> PyNone, forecast |-> PyNone]

\* fetch_openmeteo_data(): (historical_data, current_data, daily_forecast).
\* max() of an empty range raises ValueError, caught by the outer except.
fetch_openmeteo_data(r) ==
    IF r.raises THEN OmNothing(r)
    ELSE IF ~r.hourly.present THEN OmNothing(r)
    ELSE LET block == IF r.minutely.present THEN r.minutely ELSE r.hourly
         IN  IF BlockTimes(block) = <<>> THEN OmNothing(r)
             ELSE [called |-> TRUE, response |-> r,
                   historical |-> HistoricalData(r.hourly),
                   current |-> PyDict(CurrentOf(block, r.now)),
                   forecast |-> PyList(DailyForecast(r.hourly, r.now))]

\* "Process precipitation": the mean of the historical series, or None.
\* float(mean or 0) is the mean.
PrimaryPrecip(historical) ==
    IF Truthy(historical) /\ historical.type = "dict"
            /\ "precipitation" \in DOMAIN historical.v
            /\ historical.v.precipitation # <<>>
    THEN PyFloat(FloatOr0(MeanFracs(historical.v.precipitation)))
    ELSE PyNone

\* max_attempts of fetch_chirps_data.
max_attempts == 30

\* What the raster archive would answer for one day: 200 with a raster of the
\* given area mean, another status, or no answer (timeout, connection error).
ArchiveAnswers ==
    {[status |-> 200, mean |-> FracOfInt(48), fails |-> FALSE],
     [status |-> 404, mean |-> Zero, fails |-> FALSE],
     [status |-> 0, mean |-> Zero, fails |-> TRUE]}

\* requests.get(url, timeout=30): the module never imports `requests`, so the
\* name lookup raises NameError before any request is sent.
RequestsGet(answer) == [raised |-> TRUE, status |-> 0, mean |-> Zero]

\* src.read(1).mean() / 24
HourlyRate(mean) == Frac(mean[1], mean[2] * 24)

\* --------------------------------------------------------- assemble_json.py

required_summary_fields ==
    {"total_water_bodies", "total_area_m2", "avg_turbidity", "avg_chlorophyll"}

required_hourly_fields ==
    {"precipitation", "temperature_2m", "relative_humidity_2m",
     "soil_moisture_0_to_1cm", "wind_speed_10m", "evapotranspiration", "time"}

required_forecast_fields ==
    {"date", "precipitation_total_mm", "temperature_mean_c",
     "relative_humidity_mean_percent", "soil_moisture_mean_m3_m3",
     "wind_speed_mean_kmh", "evapotranspiration_mean_mm"}

\* for field in required: if field not in d: d[field] = 0
FillDefaults(d, required) ==
    [k \in (DOMAIN d) \cup required |-> IF k \in DOMAIN d THEN d[k] ELSE Zero]

\* CheckSatellite with the test of the summary fields left out.
CheckSatellite_IgnoresFields(valid, satellite_data) ==
    IF \/ satellite_data.type = "NoneType"
       \/ ~Truthy(satellite_data.v[1])
       \/ ~Truthy(satellite_data.v[2])
    THEN FALSE
    ELSE valid

\* validate_data, the satellite branch: `valid` after it.
CheckSatellite(valid, satellite_data) ==
    IF \/ satellite_data.type = "NoneType"
       \/ ~Truthy(satellite_data.v[1])
       \/ ~Truthy(satellite_data.v[2])
    THEN FALSE
    ELSE LET summary == satellite_data.v[1]
             results == satellite_data.v[2]
             valid1 == IF \E field \in required_summary_fields :
                              field \notin DOMAIN summary.v
                       THEN FALSE ELSE valid
         IN  IF ~Truthy(results) THEN FALSE ELSE valid1

\* CheckPrecip that also rejects the fallback value 0.
CheckPrecip_ZeroInvalid(valid, precip) ==
    IF precip.type = "NoneType" THEN FALSE
    ELSE IF precip.v = Zero THEN FALSE
    ELSE valid

\* CheckPrecip that lets None through.
CheckPrecip_NoneAccepted(valid, precip) == valid

\* validate_data, the precipitation branch: None is invalid, 0 is only logged.
CheckPrecip(valid, precip) ==
    IF precip.type = "NoneType" THEN FALSE
    ELSE IF precip.v = Zero THEN valid
    ELSE valid

\* validate_data, the current-weather branch: `valid` and `hourly` after it.
CheckHourly(valid, hourly, clock) ==
    IF hourly.type # "dict"
    THEN [valid |-> FALSE, hourly |-> PyDict([time |-> FracOfInt(clock)])]
    ELSE [valid |-> IF required_hourly_fields \subseteq DOMAIN hourly.v
                    THEN valid ELSE FALSE,
          hourly |-> PyDict(FillDefaults(hourly.v, required_hourly_fields))]

\* validate_data, the forecast branch: `valid` and `forecast` after it.
CheckForecast(valid, forecast) ==
    IF forecast.type # "list"
    THEN [valid |-> FALSE, forecast |-> PyList(<<>>)]
    ELSE LET days == forecast.v
             bad(day) == day.type # "dict"
                            \/ ~(required_forecast_fields \subseteq DOMAIN day.v)
         IN  [valid |-> IF \E i \in DOMAIN days : bad(days[i]) THEN FALSE ELSE valid,
              forecast |-> PyList([i \in DOMAIN days |->
                                IF days[i].type # "dict" THEN days[i]
                                ELSE PyDict(FillDefaults(days[i].v,
                                                         required_forecast_fields))])]

\* validate_data that returns at the first domain that fails.
validate_data_StopsAtFailure(satellite_data, precip, hourly, forecast, clock) ==
    IF ~CheckSatellite(TRUE, satellite_data) \/ ~CheckPrecip(TRUE, precip)
    THEN [returned |-> TRUE, valid |-> FALSE, hourly |-> hourly, forecast |-> forecast]
    ELSE LET h == CheckHourly(TRUE, hourly, clock)
             f == CheckForecast(h.valid, forecast)
         IN  [returned |-> TRUE, valid |-> f.valid,
              hourly |-> h.hourly, forecast |-> f.forecast]

\* validate_data(satellite_data, precip, hourly, forecast), run at time `clock`:
\* (valid, hourly, forecast).
validate_data(satellite_data, precip, hourly, forecast, clock) ==
    LET valid1 == CheckSatellite(TRUE, satellite_data)
        valid2 == CheckPrecip(valid1, precip)
        h == CheckHourly(valid2, hourly, clock)
        f == CheckForecast(h.valid, forecast)
    IN  [returned |-> TRUE, valid |-> f.valid,
         hourly |-> h.hourly, forecast |-> f.forecast]

\* The payload of assemble_json, written to the output file.
Payload(summary, results, precip, hourly, forecast, clock) ==
    [timestamp |-> IF "time" \in DOMAIN hourly.v THEN hourly.v.time
                   ELSE FracOfInt(clock),
     satellite_water_data |-> [summary |-> summary, water_bodies |-> results],
     climate |-> [precipitation_imerg_mm_per_hr |->
                      IF precip.type # "NoneType" THEN precip
                      ELSE PyStr("unavailable"),
                  open_meteo_current |-> hourly,
                  open_meteo_forecast |-> forecast]]

\* assemble_json with the results of its two fetches handed in: satellite_data
\* as fetch_water_data returned it, (precip, hourly, forecast) as
\* fetch_climate_data did, read at time `clock`. A satellite_data of None ends
\* the function with `return False` before anything is validated or written.
assemble_json(satellite_data, precip, hourly, forecast, clock) ==
    IF satellite_data.type = "NoneType"
    THEN [vout |-> [returned |-> FALSE, valid |-> FALSE,
                    hourly |-> PyNone, forecast |-> PyNone],
          output |-> [written |-> FALSE, finished |-> TRUE, success |-> FALSE,
                      record |-> <<>>]]
    ELSE LET summary == satellite_data.v[1]
             results == satellite_data.v[2]
             v == validate_data(satellite_data, precip, hourly, forecast, clock)
         IN  [vout |-> v,
              output |-> [written |-> TRUE, finished |-> TRUE, success |-> TRUE,
                          record |-> Payload(summary, results, precip,
                                             v.hourly, v.forecast, clock)]]

\* ------------------------------------------------------------ idle values

NoResponse == OmResponse(FALSE, NoBlock, NoBlock, 0)
NoOm ==
    [called |-> FALSE, response |-> NoResponse,
     historical |-> PyNone, current |-> PyNone, forecast |-> PyNone]
NoOffer == [at |-> -1, mean |-> Zero]
NoChirps == [called |-> FALSE, attempt |-> 0, day |-> 0, offered |-> NoOffer]
NoClimate ==
    [returned |-> FALSE, precip |-> PyNone, current |-> PyNone, forecast |-> PyNone]
NoArgs ==
    [called |-> FALSE, satellite_data |-> PyNone, precip |-> PyNone,
     hourly |-> PyNone, forecast |-> PyNone, clock |-> 0]
NoVerdict ==
    [returned |-> FALSE, valid |-> FALSE, hourly |-> PyNone, forecast |-> PyNone]
NoOutput == [written |-> FALSE, finished |-> FALSE, success |-> FALSE, record |-> <<>>]

AllPending == [t \in Tiles |-> Pending]
TilesFinished == \A t \in Tiles : tile[t].status # "pending"

\* ------------------------------------- fetch_satellite.py run as a script

\* A fresh deployment: no tile folder holds a file yet.
InitSat ==
    /\ entry = "fetch_satellite"
    /\ run = 1
    /\ pc = "tiles"
    /\ cache = [t \in Tiles |-> EmptyFolder]
    /\ tile = AllPending
    /\ sat = NoSat
    /\ prev = NoSat
    /\ om = NoOm
    /\ chirps = NoChirps
    /\ climate = NoClimate
    /\ vin = NoArgs
    /\ vout = NoVerdict
    /\ output = NoOutput

\* The place of a worker that ends now among the workers of the pool, in the
\* order in which they end; kept for a call of fetch_water_data on its own.
RankOfNext ==
    IF entry = "fetch_water_data"
    THEN 1 + Cardinality({u \in Tiles : tile[u].status # "pending"})
    ELSE 0

\* One worker of the pool runs fetch_water_data_for_tile for tile t, from its
\* first line to its return or its exception. `attempts` keeps what the
\* imagery service had in store for the get_data calls of a worker that made
\* any.
TileWorker(t, scenarios) ==
    /\ pc = "tiles"
    /\ tile[t].status = "pending"
    /\ \E sc \in scenarios :
          LET o == fetch_water_data_for_tile(cache[t], t, sc)
          IN  /\ tile' = [tile EXCEPT ![t] =
                             [o.ret EXCEPT !.attempts =
                                 IF o.ret.requestCalls > 0 THEN sc.attempts ELSE <<>>,
                                           !.rank = RankOfNext]]
              /\ cache' = [cache EXCEPT ![t] = o.folder]
    /\ UNCHANGED <<entry, run, pc, sat, prev, om, chirps, climate, vin, vout, output>>

\* Where a run goes once fetch_water_data has returned.
AfterSatellite ==
    IF entry \in {"fetch_satellite", "fetch_water_data"} THEN "done" ELSE "climate"

\* fetch_water_data returns: every worker returned, the results are merged.
FetchWaterDataReturns ==
    /\ pc = "tiles"
    /\ TilesFinished
    /\ \A t \in Tiles : tile[t].status = "returned"
    /\ sat' = MergeTiles(tile)
    /\ pc' = AfterSatellite
    /\ UNCHANGED <<entry, run, cache, tile, prev, om, chirps, climate, vin, vout, output>>

\* fetch_water_data raises: list(executor.map(...)) re-raises the exception of
\* a worker once the pool has shut down, and nothing in the function catches it.
FetchWaterDataRaises ==
    /\ pc = "tiles"
    /\ TilesFinished
    /\ \E t \in Tiles : tile[t].status = "raised"
    /\ sat' = SatRaised
    /\ pc' = IF entry = "fetch_satellite" THEN "crashed" ELSE "except"
    /\ UNCHANGED <<entry, run, cache, tile, prev, om, chirps, climate, vin, vout, output>>

\* The script is started again on the same disk.
NextRun ==
    /\ pc \in {"done", "crashed"}
    /\ run < MaxRuns
    /\ run' = run + 1
    /\ pc' = "tiles"
    /\ tile' = AllPending
    /\ prev' = sat
    /\ sat' = NoSat
    /\ om' = NoOm
    /\ chirps' = NoChirps
    /\ climate' = NoClimate
    /\ vin' = NoArgs
    /\ vout' = NoVerdict
    /\ output' = NoOutput
    /\ UNCHANGED <<entry, cache>>

NextSat ==
    \/ \E t \in Tiles : TileWorker(t, TileScenarios)
    \/ FetchWaterDataReturns
    \/ FetchWaterDataRaises
    \/ NextRun

SpecSat == InitSat /\ [][NextSat]_vars

\* ---- claims about the tile workers and fetch_water_data

RunEnded == pc \in {"done", "crashed"}

\* Tile t's three files existed and passed validate_tiff when its worker
\* started: a worker that meets a cache miss always searches the catalog.
CachedValidAtStart(t) ==
    /\ tile[t].catalogCalls = 0
    /\ AllFilesExist(cache[t])
    /\ CachedTiffsValidate(cache[t])

NoRemoteCall(t) == tile[t].catalogCalls = 0 /\ tile[t].requestCalls = 0

\* C1: a worker whose tile has its three cache files, each passing validation,
\* makes no remote call and returns the water bodies of the cached rasters.
C1_CachedTileServedFromCache ==
    \A t \in Tiles :
        (tile[t].status # "pending" /\ CachedValidAtStart(t))
            => /\ tile[t].status = "returned"
               /\ NoRemoteCall(t)
               /\ tile[t].results = ProcessTiffs(cache[t], t).results
               /\ tile[t].n = ProcessTiffs(cache[t], t).n

\* C2: the rasters a run fetched are in the tile's folder, and a second run on
\* four valid cached tiles gives the first run's list and summary again with
\* no remote call.
C2_SecondRunIdempotent ==
    /\ \A t \in Tiles :
          tile[t].path = "fetched"
              => /\ AllFilesExist(cache[t])
                 /\ tile[t].results = ProcessTiffs(cache[t], t).results
    /\ (run >= 2 /\ RunEnded /\ \A t \in Tiles : CachedValidAtStart(t))
          => /\ sat.status = "returned"
             /\ sat.results = prev.results
             /\ sat.summary = prev.summary
             /\ \A t \in Tiles : NoRemoteCall(t)

FailurePaths == {"catalog_error", "no_imagery", "retries_exhausted"}

\* C3: a tile that fails (catalog error, no imagery, retries exhausted) gives
\* no bodies and the count 0, and fetch_water_data still returns the summary
\* and the bodies of the other tiles.
C3_TileFailureIsContained ==
    (RunEnded /\ \E t \in Tiles : tile[t].path \in FailurePaths)
        => /\ \A t \in Tiles :
                tile[t].path \in FailurePaths
                    => tile[t].results = <<>> /\ tile[t].n = 0
           /\ sat.status = "returned"
           /\ sat.results = Concat([t \in Tiles |-> tile[t].results])
           /\ sat.summary.total_water_bodies = Len(sat.results)

\* -------------------------------------- fetch_climate.py run as a script

InitClimate ==
    /\ entry = "fetch_climate"
    /\ run = 1
    /\ pc = "climate"
    /\ cache = [t \in Tiles |-> EmptyFolder]
    /\ tile = AllPending
    /\ sat = NoSat
    /\ prev = NoSat
    /\ om = NoOm
    /\ chirps = NoChirps
    /\ climate = NoClimate
    /\ vin = NoArgs
    /\ vout = NoVerdict
    /\ output = NoOutput

\* Where a run goes once fetch_climate_data has returned.
AfterClimate == IF entry = "fetch_climate" THEN "done" ELSE "validate"

\* return precip, current, forecast
ClimateReturn(precip) ==
    [returned |-> TRUE, precip |-> precip, current |-> om.current,
     forecast |-> om.forecast]

\* FetchOpenMeteo without the try/except of the weather fetch: a failed fetch
\* raises into the caller.
FetchOpenMeteo_Propagates(scenarios) ==
    /\ pc = "climate"
    /\ \E r \in scenarios :
          LET o == fetch_openmeteo_data(r)
              precip == PrimaryPrecip(o.historical)
          IN  /\ om' = o
              /\ IF o.forecast.type = "NoneType"
                 THEN /\ pc' = "except"
                      /\ UNCHANGED <<chirps, climate>>
                 ELSE IF precip.type = "NoneType"
                 THEN /\ chirps' = [called |-> TRUE, attempt |-> 0, day |-> -1,
                                     offered |-> NoOffer]
                      /\ pc' = "chirps"
                      /\ UNCHANGED climate
                 ELSE /\ climate' = [returned |-> TRUE, precip |-> precip,
                                      current |-> o.current, forecast |-> o.forecast]
                      /\ pc' = AfterClimate
                      /\ UNCHANGED chirps
    /\ UNCHANGED <<entry, run, cache, tile, sat, prev, vin, vout, output>>

\* fetch_climate_data up to the fallback test: the weather fetch, then the
\* primary estimate; the walk starts the day before the run when it is None.
FetchOpenMeteo(scenarios) ==
    /\ pc = "climate"
    /\ \E r \in scenarios :
          LET o == fetch_openmeteo_data(r)
              precip == PrimaryPrecip(o.historical)
          IN  /\ om' = o
              /\ IF precip.type = "NoneType"
                 THEN /\ chirps' = [called |-> TRUE, attempt |-> 0, day |-> -1,
                                     offered |-> NoOffer]
                      /\ pc' = "chirps"
                      /\ UNCHANGED climate
                 ELSE /\ climate' = [returned |-> TRUE, precip |-> precip,
                                      current |-> o.current, forecast |-> o.forecast]
                      /\ pc' = AfterClimate
                      /\ UNCHANGED chirps
    /\ UNCHANGED <<entry, run, cache, tile, sat, prev, vin, vout, output>>

\* ChirpsAttempt that tries the same day again after a failed download,
\* without counting the attempt.
ChirpsAttempt_SameDayAgain(answers) ==
    /\ pc = "chirps"
    /\ chirps.attempt < max_attempts
    /\ \E answer \in answers :
          LET response == RequestsGet(answer)
              offered == IF chirps.offered.at = -1 /\ ~answer.fails /\ answer.status = 200
                         THEN [at |-> chirps.attempt, mean |-> answer.mean]
                         ELSE chirps.offered
          IN  IF ~response.raised /\ response.status = 200
              THEN /\ chirps' = [chirps EXCEPT !.offered = offered]
                   /\ climate' = ClimateReturn(PyFloat(HourlyRate(response.mean)))
                   /\ pc' = AfterClimate
              ELSE /\ chirps' = [chirps EXCEPT !.offered = offered]
                   /\ UNCHANGED <<climate, pc>>
    /\ UNCHANGED <<entry, run, cache, tile, sat, prev, om, vin, vout, output>>

\* One pass of the while loop of fetch_chirps_data: the day's download, then
\* either the return of the day's hourly rate or the step to the prior day.
\* `offered` remembers the first day for which the archive had a raster.
ChirpsAttempt(answers) ==
    /\ pc = "chirps"
    /\ chirps.attempt < max_attempts
    /\ \E answer \in answers :
          LET response == RequestsGet(answer)
              offered == IF chirps.offered.at = -1 /\ ~answer.fails /\ answer.status = 200
                         THEN [at |-> chirps.attempt, mean |-> answer.mean]
                         ELSE chirps.offered
          IN  IF ~response.raised /\ response.status = 200
              THEN /\ chirps' = [chirps EXCEPT !.offered = offered]
                   /\ climate' = ClimateReturn(PyFloat(HourlyRate(response.mean)))
                   /\ pc' = AfterClimate
              ELSE /\ chirps' = [chirps EXCEPT !.offered = offered,
                                                !.attempt = @ + 1, !.day = @ - 1]
                   /\ UNCHANGED <<climate, pc>>
    /\ UNCHANGED <<entry, run, cache, tile, sat, prev, om, vin, vout, output>>

\* ChirpsExhausted without the fallback value: the None of fetch_chirps_data
\* is returned as the estimate.
ChirpsExhausted_ReturnsNone ==
    /\ pc = "chirps"
    /\ chirps.attempt >= max_attempts
    /\ climate' = ClimateReturn(PyNone)
    /\ pc' = AfterClimate
    /\ UNCHANGED <<entry, run, cache, tile, sat, prev, om, chirps, vin, vout, output>>

\* The loop ends after max_attempts days: fetch_chirps_data returns None and
\* fetch_climate_data uses the fallback value 0.
ChirpsExhausted ==
    /\ pc = "chirps"
    /\ chirps.attempt >= max_attempts
    /\ climate' = ClimateReturn(PyFloat(Zero))
    /\ pc' = AfterClimate
    /\ UNCHANGED <<entry, run, cache, tile, sat, prev, om, chirps, vin, vout, output>>

NextClimate ==
    \/ FetchOpenMeteo(OmScenarios)
    \/ ChirpsAttempt(ArchiveAnswers)
    \/ ChirpsExhausted

SpecClimate == InitClimate /\ [][NextClimate]_vars

\* ---- claims about the precipitation fallback chain

\* The weather response could be read to its end: the call returned, the
\* hourly block is there, and the block "current" is taken from has a sample.
ResponseReadable(r) ==
    /\ ~r.raises
    /\ r.hourly.present
    /\ Len((IF r.minutely.present THEN r.minutely ELSE r.hourly).vars[1]) > 0

\* The precipitation series of the response has an entry that is a number
\* other than 0 (rain is never negative, so its mean is not 0 either).
SeriesNonZero(r) ==
    \E i \in DOMAIN r.hourly.vars[1] :
        ~IsNaN(r.hourly.vars[1][i]) /\ r.hourly.vars[1][i] # Zero

PrimarySucceeds(r) == ResponseReadable(r) /\ SeriesNonZero(r)

\* Missing (no response, no hourly block), empty, or nothing but 0 and NaN.
PrimaryDegenerate(r) == r.raises \/ ~r.hourly.present \/ ~SeriesNonZero(r)

C6_FirstDownloadEndsWalk ==
    (climate.returned /\ chirps.called /\ chirps.offered.at >= 0)
        => /\ climate.precip = PyFloat(HourlyRate(chirps.offered.mean))
           /\ chirps.attempt = chirps.offered.at
           /\ chirps.day = -1 - chirps.offered.at

\* -------------------------------------------- validate_data on its own

\* Largest number of days in a forecast handed to validate_data.
MaxForecastDays == 2

\* The time at which the reconciler runs.
ReconcilerClock == Midnight + 120

ABody ==
    [id |-> <<1, 1>>, area_m2 |-> 100, geometry |-> {1},
     turbidity |-> Zero, chlorophyll |-> Zero]

\* The satellite arguments tried: None, or (summary, results) with the
\* summary None or holding any subset of its fields, and the results None
\* (bodies = -1) or a list of 0..2 bodies.
SatelliteChoices ==
    {[none |-> TRUE, summary_none |-> TRUE, fields |-> {}, bodies |-> -1]}
        \cup {[none |-> FALSE, summary_none |-> TRUE, fields |-> {}, bodies |-> b] :
                  b \in -1..2}
        \cup {[none |-> FALSE, summary_none |-> FALSE, fields |-> K, bodies |-> b] :
                  K \in SUBSET required_summary_fields, b \in -1..2}

SatelliteArg(c) ==
    IF c.none THEN PyNone
    ELSE PyTuple(<<IF c.summary_none THEN PyNone
                   ELSE PyDict([k \in c.fields |-> Zero]),
                   IF c.bodies < 0 THEN PyNone
                   ELSE PyList([i \in 1..c.bodies |-> ABody])>>)

\* 26/5 = 5.2
PrecipArgs == <<PyNone, PyFloat(Zero), PyFloat(Frac(26, 5))>>

DictWithout(required, missing) == PyDict([k \in required \ missing |-> FracOfInt(7)])

HourlyArgs ==
    <<PyNone, PyStr("unavailable"),
      DictWithout(required_hourly_fields, {}),
      DictWithout(required_hourly_fields, {"time"}),
      DictWithout(required_hourly_fields, {"precipitation"}),
      DictWithout(required_hourly_fields, {"time", "wind_speed_10m"})>>

DayArgs ==
    <<PyNone,
      DictWithout(required_forecast_fields, {}),
      DictWithout(required_forecast_fields, {"date"})>>

ForecastChoices ==
    {[kind |-> k, days |-> <<>>] : k \in {"NoneType", "str"}}
        \cup {[kind |-> "list", days |-> d] :
                  d \in UNION {[1..n -> DOMAIN DayArgs] : n \in 0..MaxForecastDays}}

ForecastArg(c) ==
    IF c.kind = "NoneType" THEN PyNone
    ELSE IF c.kind = "str" THEN PyStr("unavailable")
    ELSE PyList([i \in DOMAIN c.days |-> DayArgs[c.days[i]]])

InitValidate ==
    /\ entry = "validate_data"
    /\ run = 1
    /\ pc = "validate"
    /\ cache = [t \in Tiles |-> EmptyFolder]
    /\ tile = AllPending
    /\ sat = NoSat
    /\ prev = NoSat
    /\ om = NoOm
    /\ chirps = NoChirps
    /\ climate = NoClimate
    /\ \E s \in SatelliteChoices, p \in DOMAIN PrecipArgs,
          h \in DOMAIN HourlyArgs, f \in ForecastChoices :
          vin = [called |-> TRUE, satellite_data |-> SatelliteArg(s),
                 precip |-> PrecipArgs[p], hourly |-> HourlyArgs[h],
                 forecast |-> ForecastArg(f), clock |-> ReconcilerClock]
    /\ vout = NoVerdict
    /\ output = NoOutput

\* One call of validate_data.
ValidateCall ==
    /\ pc = "validate"
    /\ entry = "validate_data"
    /\ vout' = validate_data(vin.satellite_data, vin.precip, vin.hourly,
                              vin.forecast, vin.clock)
    /\ pc' = "done"
    /\ UNCHANGED <<entry, run, cache, tile, sat, prev, om, chirps, climate, vin, output>>

NextValidate == ValidateCall

SpecValidate == InitValidate /\ [][NextValidate]_vars

\* The four per-domain results, as the specification words them, on the
\* arguments handed to the validator.
SatelliteDomainValid ==
    /\ vin.satellite_data.type = "tuple"
    /\ vin.satellite_data.v[1].type = "dict"
    /\ required_summary_fields \subseteq DOMAIN vin.satellite_data.v[1].v
    /\ vin.satellite_data.v[2].type = "list"
    /\ Len(vin.satellite_data.v[2].v) >= 1

PrecipDomainValid == vin.precip.type # "NoneType"

CurrentDomainValid ==
    /\ vin.hourly.type = "dict"
    /\ required_hourly_fields \subseteq DOMAIN vin.hourly.v

ForecastDomainValid ==
    /\ vin.forecast.type = "list"
    /\ \A i \in DOMAIN vin.forecast.v :
          /\ vin.forecast.v[i].type = "dict"
          /\ required_forecast_fields \subseteq DOMAIN vin.forecast.v[i].v

\* C8: in the validator the precipitation domain is valid if and only if the
\* estimate is not null: a null estimate always makes the verdict false, and
\* with the other three domains valid the verdict is true exactly when the
\* estimate is not null, an estimate of exactly 0 included.
C8_PrecipValidIffNotNull ==
    vout.returned =>
        /\ vin.precip.type = "NoneType" => ~vout.valid
        /\ (SatelliteDomainValid /\ CurrentDomainValid /\ ForecastDomainValid)
               => (vout.valid <=> vin.precip.type # "NoneType")

\* An estimate of exactly 0 went through the validator and the verdict is true.
C8_Witness ==
    /\ vout.returned
    /\ vin.precip.type = "float"
    /\ vin.precip.v = Zero
    /\ vout.valid

\* C9: the overall validity is the AND of the four per-domain results, and
\* whatever the other domains did, a structured current sample and every
\* structured forecast day come back with all their required fields filled.
C9_ValidityIsConjunction ==
    vout.returned =>
        /\ vout.valid <=> (/\ SatelliteDomainValid
                           /\ PrecipDomainValid
                           /\ CurrentDomainValid
                           /\ ForecastDomainValid)
        /\ vin.hourly.type = "dict" =>
               /\ vout.hourly.type = "dict"
               /\ required_hourly_fields \subseteq DOMAIN vout.hourly.v
        /\ vin.forecast.type = "list" =>
               /\ vout.forecast.type = "list"
               /\ Len(vout.forecast.v) = Len(vin.forecast.v)
               /\ \A i \in DOMAIN vin.forecast.v :
                     vin.forecast.v[i].type = "dict" =>
                         /\ vout.forecast.v[i].type = "dict"
                         /\ required_forecast_fields
                                \subseteq DOMAIN vout.forecast.v[i].v

\* The satellite and precipitation domains failed, and a current sample and a
\* forecast day that each lacked a field were still checked and filled.
C9_Witness ==
    /\ vout.returned
    /\ ~SatelliteDomainValid
    /\ ~PrecipDomainValid
    /\ vin.hourly.type = "dict"
    /\ ~(required_hourly_fields \subseteq DOMAIN vin.hourly.v)
    /\ required_hourly_fields \subseteq DOMAIN vout.hourly.v
    /\ vin.forecast.type = "list"
    /\ \E i \in DOMAIN vin.forecast.v :
          /\ vin.forecast.v[i].type = "dict"
          /\ "date" \notin DOMAIN vin.forecast.v[i].v
          /\ "date" \in DOMAIN vout.forecast.v[i].v
    /\ ~vout.valid

\* C10: the satellite domain is valid if and only if the summary is non-null,
\* holds all four required fields and the water-body list has at least one
\* element: otherwise the verdict is false, and with the other three domains
\* valid the verdict is true exactly in that case.
C10_SatelliteValidIffComplete ==
    vout.returned =>
        /\ ~SatelliteDomainValid => ~vout.valid
        /\ (PrecipDomainValid /\ CurrentDomainValid /\ ForecastDomainValid)
               => (vout.valid <=> SatelliteDomainValid)

\* A complete summary with a single water body was accepted.
C10_Witness ==
    /\ vout.returned
    /\ vout.valid
    /\ vin.satellite_data.type = "tuple"
    /\ Len(vin.satellite_data.v[2].v) = 1

\* ------------------------------------------- main.py: the whole pipeline

\* What the imagery service does to a tile worker of a pipeline run: it has
\* no scene, it delivers rasters at the first call, or every call fails.
PipelineTileScenarios ==
    {Scenario("none", AllOk, NotAList),
     Scenario("found", AllOk, RastersA),
     Scenario("found", AllFail, NotAList)}

\* What the weather service answers in a pipeline run: the call raises, a wet
\* or a dry series with the 15-minute block, a series with gaps without it.
PipelineOmScenarios ==
    {OmResponse(TRUE, NoBlock, NoBlock, Midnight + 90),
     OmResponse(FALSE, HourlyBlock(Rainy(HourlyLen)), MinutelyBlock, Midnight + 50),
     OmResponse(FALSE, HourlyBlock(Dry(HourlyLen)), MinutelyBlock, Midnight + 50),
     OmResponse(FALSE, HourlyBlock(Gappy(HourlyLen)), NoBlock, Midnight + 90)}

\* Minutes between the weather response and the reconciler's reading of the
\* clock.
Lateness == {1, 45}

Init ==
    /\ entry = "main"
    /\ run = 1
    /\ pc = "tiles"
    /\ cache = [t \in Tiles |-> EmptyFolder]
    /\ tile = AllPending
    /\ sat = NoSat
    /\ prev = NoSat
    /\ om = NoOm
    /\ chirps = NoChirps
    /\ climate = NoClimate
    /\ vin = NoArgs
    /\ vout = NoVerdict
    /\ output = NoOutput

\* assemble_json from the call of validate_data to `return True`: the
\* validation, the timestamp, the payload and the write of the output file.
\* fetch_water_data never returns None, so the early `return False` is never
\* taken.
ValidateAndWrite ==
    /\ pc = "validate"
    /\ entry = "main"
    /\ \E late \in Lateness :
          LET clock == om.response.now + late
              satellite_data == PyTuple(<<PyDict(sat.summary), PyList(sat.results)>>)
              a == assemble_json(satellite_data, climate.precip, climate.current,
                                 climate.forecast, clock)
          IN  /\ vin' = [called |-> TRUE, satellite_data |-> satellite_data,
                          precip |-> climate.precip, hourly |-> climate.current,
                          forecast |-> climate.forecast, clock |-> clock]
              /\ vout' = a.vout
              /\ output' = a.output
    /\ pc' = "done"
    /\ UNCHANGED <<entry, run, cache, tile, sat, prev, om, chirps, climate>>

\* except Exception: the error is logged and assemble_json returns False;
\* nothing is written.
AssembleFails ==
    /\ pc = "except"
    /\ output' = [written |-> FALSE, finished |-> TRUE, success |-> FALSE,
                   record |-> <<>>]
    /\ pc' = "done"
    /\ UNCHANGED <<entry, run, cache, tile, sat, prev, om, chirps, climate, vin, vout>>

Next ==
    \/ \E t \in Tiles : TileWorker(t, PipelineTileScenarios)
    \/ FetchWaterDataReturns
    \/ FetchWaterDataRaises
    \/ FetchOpenMeteo(PipelineOmScenarios)
    \/ ChirpsAttempt(ArchiveAnswers)
    \/ ChirpsExhausted
    \/ ValidateAndWrite
    \/ AssembleFails
    \/ NextRun

Spec == Init /\ [][Next]_vars

\* ---- claims about the pipeline

\* The record has its six parts: timestamp, satellite summary, water-body
\* list, precipitation, current weather, forecast.
RecordComplete(record) ==
    /\ DOMAIN record = {"timestamp", "satellite_water_data", "climate"}
    /\ DOMAIN record.satellite_water_data = {"summary", "water_bodies"}
    /\ DOMAIN record.climate = {"precipitation_imerg_mm_per_hr",
                                "open_meteo_current", "open_meteo_forecast"}

\* C4: every pipeline run ends having written one complete record, whatever
\* the tiles (cached, fetched, failed) and the providers did.
C4_EveryRunWritesRecord ==
    output.finished => (output.written /\ RecordComplete(output.record))

\* Both tiers are exhausted: the primary estimate was None and the walk over
\* the archive used up its attempts.
BothTiersExhausted ==
    /\ climate.returned
    /\ chirps.called
    /\ chirps.attempt >= max_attempts

\* C7 as stated: when both precipitation tiers are exhausted the estimate is
\* the sentinel 0 and the run's validity is flagged false.
C7_ExhaustedIsZeroAndInvalid ==
    (BothTiersExhausted /\ vout.returned)
        => /\ climate.precip.type = "float"
           /\ climate.precip.v = Zero
           /\ ~vout.valid

\* C7: when both precipitation tiers are exhausted the estimate is the
\* sentinel 0, it is written to the record as 0, and the validator accepts it:
\* the run is flagged valid exactly when the satellite, current-weather and
\* forecast domains are valid.
C7_ExhaustedIsZeroAndAccepted ==
    (BothTiersExhausted /\ vout.returned)
        => /\ climate.precip.type = "float"
           /\ climate.precip.v = Zero
           /\ output.record.climate.precipitation_imerg_mm_per_hr.type = "float"
           /\ output.record.climate.precipitation_imerg_mm_per_hr.v = Zero
           /\ vout.valid <=> (/\ SatelliteDomainValid
                              /\ CurrentDomainValid
                              /\ ForecastDomainValid)

\* Both tiers were exhausted and the run was flagged valid.
C7_Witness ==
    /\ BothTiersExhausted
    /\ vout.returned
    /\ output.written
    /\ vout.valid

\* ------------------------------------- assemble_json with stubbed fetches

\* The two fetches have returned; vin holds what they returned.
InitReconcile ==
    /\ entry = "assemble_json"
    /\ run = 1
    /\ pc = "assemble"
    /\ cache = [t \in Tiles |-> EmptyFolder]
    /\ tile = AllPending
    /\ sat = NoSat
    /\ prev = NoSat
    /\ om = NoOm
    /\ chirps = NoChirps
    /\ climate = NoClimate
    /\ \E s \in SatelliteChoices, p \in DOMAIN PrecipArgs,
          h \in DOMAIN HourlyArgs, f \in ForecastChoices :
          vin = [called |-> FALSE, satellite_data |-> SatelliteArg(s),
                 precip |-> PrecipArgs[p], hourly |-> HourlyArgs[h],
                 forecast |-> ForecastArg(f), clock |-> ReconcilerClock]
    /\ vout = NoVerdict
    /\ output = NoOutput

\* The body of assemble_json on those results, to its return.
AssembleCall ==
    /\ pc = "assemble"
    /\ entry = "assemble_json"
    /\ LET a == assemble_json(vin.satellite_data, vin.precip, vin.hourly,
                              vin.forecast, vin.clock)
       IN  /\ vin' = [vin EXCEPT !.called = a.vout.returned]
           /\ vout' = a.vout
           /\ output' = a.output
    /\ pc' = "done"
    /\ UNCHANGED <<entry, run, cache, tile, sat, prev, om, chirps, climate>>

NextReconcile == AssembleCall

SpecReconcile == InitReconcile /\ [][NextReconcile]_vars

\* ---- claims about the emitted record

\* The current sample and the forecast handed to the reconciler are complete.
ClimateArgsValid == CurrentDomainValid /\ ForecastDomainValid

\* C11: given satellite data null, precipitation 5.2, a valid current sample
\* and a valid forecast, the reconciler emits a record whose
\* satellite_water_data holds the zero-body defaults (no bodies), whose
\* precipitation is 5.2, and the run is not reported valid.
C11_NullSatelliteStillEmits ==
    (/\ output.finished
     /\ vin.satellite_data.type = "NoneType"
     /\ vin.precip.type = "float"
     /\ vin.precip.v = Frac(26, 5)
     /\ ClimateArgsValid)
        => /\ output.written
           /\ RecordComplete(output.record)
           /\ output.record.satellite_water_data.water_bodies.v = <<>>
           /\ output.record.climate.precipitation_imerg_mm_per_hr.v = Frac(26, 5)
           /\ ~(vout.returned /\ vout.valid)

IsUnavailable(x) == x.type = "str" /\ x.v = "unavailable"

\* C12: in every emitted record, current weather that was no structured
\* sample and a forecast that was no list appear as the marker "unavailable":
\* current is "unavailable" or an object with every required field, forecast
\* is "unavailable" or a list of complete day entries.
C12_FailedDomainMarkedUnavailable ==
    output.written =>
        LET current == output.record.climate.open_meteo_current
            forecast == output.record.climate.open_meteo_forecast
        IN  /\ vin.hourly.type # "dict" => IsUnavailable(current)
            /\ vin.forecast.type # "list" => IsUnavailable(forecast)
            /\ \/ IsUnavailable(current)
               \/ /\ current.type = "dict"
                  /\ required_hourly_fields \subseteq DOMAIN current.v
            /\ \/ IsUnavailable(forecast)
               \/ /\ forecast.type = "list"
                  /\ \A i \in DOMAIN forecast.v :
                        /\ forecast.v[i].type = "dict"
                        /\ required_forecast_fields \subseteq DOMAIN forecast.v[i].v

\* C13: the record's timestamp is the current sample's own timestamp when the
\* sample carries one, and the reconciler's time of execution in every other
\* case (no structured sample, or a sample without a time field).
C13_TimestampFromSampleOrClock ==
    output.written =>
        output.record.timestamp =
            IF vin.hourly.type = "dict" /\ "time" \in DOMAIN vin.hourly.v
            THEN vin.hourly.v.time
            ELSE FracOfInt(vin.clock)

\* --------------------------------------- fetch_openmeteo_data on its own

\* A series whose value grows with each hour.
Ramp(n) == [i \in 1..n |-> FracOfInt(i)]

NormalizerHourly ==
    {NoBlock,
     HourlyBlock(<<>>),
     HourlyBlock(Rainy(HourlyLen)),
     HourlyBlock(Gappy(HourlyLen)),
     HourlyBlock(Dry(HourlyLen)),
     Block(Midnight - DayMinutes, 60, Ramp(HourlyLen), Ramp(HourlyLen))}

NormalizerMinutely ==
    {NoBlock, MinutelyBlock, Block(Midnight, 15, <<>>, <<>>)}

\* The clock at the fetch: before every sample of the response, between two
\* samples, on a sample, after every sample.
NormalizerNow ==
    {Midnight - 2 * DayMinutes, Midnight - 30, Midnight, Midnight + 50,
     Midnight + 90, Midnight + 20 * DayMinutes}

NormalizerScenarios ==
    {OmResponse(raises, hourly, minutely, now) :
        raises \in BOOLEAN, hourly \in NormalizerHourly,
        minutely \in NormalizerMinutely, now \in NormalizerNow}

\* The response the service is about to give is held in om.response.
InitNormalize ==
    /\ entry = "fetch_openmeteo_data"
    /\ run = 1
    /\ pc = "openmeteo"
    /\ cache = [t \in Tiles |-> EmptyFolder]
    /\ tile = AllPending
    /\ sat = NoSat
    /\ prev = NoSat
    /\ \E r \in NormalizerScenarios : om = [NoOm EXCEPT !.response = r]
    /\ chirps = NoChirps
    /\ climate = NoClimate
    /\ vin = NoArgs
    /\ vout = NoVerdict
    /\ output = NoOutput

\* One call of fetch_openmeteo_data.
NormalizeCall ==
    /\ pc = "openmeteo"
    /\ entry = "fetch_openmeteo_data"
    /\ om' = fetch_openmeteo_data(om.response)
    /\ pc' = "done"
    /\ UNCHANGED <<entry, run, cache, tile, sat, prev, chirps, climate, vin, vout, output>>

NextNormalize == NormalizeCall

SpecNormalize == InitNormalize /\ [][NextNormalize]_vars

\* ---- claims about the weather normalizer

\* The block the current sample is taken from, and its times.
CurrentBlock == IF om.response.minutely.present THEN om.response.minutely
                ELSE om.response.hourly
CurrentTimes == BlockTimes(CurrentBlock)
QualifyingTimes ==
    {CurrentTimes[i] : i \in {j \in DOMAIN CurrentTimes : CurrentTimes[j] <= om.response.now}}
AllTimes == {CurrentTimes[i] : i \in DOMAIN CurrentTimes}

\* C14: from a non-empty series the current operation returns the sample with
\* the latest timestamp not after now, and when no timestamp is at or before
\* now it returns the sample with the minimum timestamp.
C14_CurrentIsLatestNotAfterNow ==
    (om.called /\ ResponseReadable(om.response))
        => /\ om.current.type = "dict"
           /\ \E i \in DOMAIN CurrentTimes :
                 /\ om.current.v.time = FracOfInt(CurrentTimes[i])
                 /\ om.current.v.precipitation = FloatOr0(CurrentBlock.vars[1][i])
                 /\ om.current.v.temperature_2m = FloatOr0(CurrentBlock.vars[2][i])
                 /\ IF QualifyingTimes # {}
                    THEN /\ CurrentTimes[i] \in QualifyingTimes
                         /\ \A t \in QualifyingTimes : t <= CurrentTimes[i]
                    ELSE \A t \in AllTimes : CurrentTimes[i] <= t

\* A sample was selected that has later samples both before and after now.
C14_Witness ==
    /\ om.called
    /\ om.current.type = "dict"
    /\ \E t \in QualifyingTimes : FracOfInt(t) = om.current.v.time
    /\ \E t \in QualifyingTimes : FracLT(FracOfInt(t), om.current.v.time)
    /\ \E t \in AllTimes \ QualifyingTimes : TRUE

\* No timestamp was at or before now, and the earliest sample was returned.
C14_WitnessNoneQualifies ==
    /\ om.called
    /\ om.current.type = "dict"
    /\ QualifyingTimes = {}
    /\ om.current.v.time = FracOfInt(CurrentTimes[1])

\* 00:00 UTC of the day of the fetch.
Today == (om.response.now \div DayMinutes) * DayMinutes

\* The response covers yesterday, today and the days after it in full.
HourlyCoversHorizon ==
    /\ om.response.hourly.present
    /\ om.response.hourly.time0 = Today - DayMinutes
    /\ Len(om.response.hourly.vars[1]) = HourlyLen

\* The hourly values of variable idx stamped with the calendar date `date`,
\* in time order, NaN read as 0.
SamplesOfDate(idx, date) ==
    LET times == BlockTimes(om.response.hourly)
        values == om.response.hourly.vars[idx]
        first == (date - om.response.hourly.time0) \div om.response.hourly.interval + 1
        inDate(i) == i \in DOMAIN times /\ times[i] >= date /\ times[i] < date + DayMinutes
    IN  [j \in 1..Cardinality({i \in DOMAIN times : inDate(i)}) |->
            IF IsNaN(values[first + j - 1]) THEN Zero ELSE values[first + j - 1]]

\* C15: the forecast has exactly N day entries; the entry for day k is dated k
\* days after today and aggregates the 24 hourly samples of that same calendar
\* date, precipitation summed and the other fields averaged.
C15_ForecastBucketsByDate ==
    (om.called /\ ResponseReadable(om.response) /\ HourlyCoversHorizon)
        => /\ om.forecast.type = "list"
           /\ Len(om.forecast.v) = openmeteo_forecast_days
           /\ \A k \in 1..openmeteo_forecast_days :
                 LET entry_k == om.forecast.v[k].v
                     date == Today + k * DayMinutes
                 IN  /\ entry_k.date = FracOfInt(date)
                     /\ Len(SamplesOfDate(1, date)) = HoursPerDay
                     /\ entry_k.precipitation_total_mm = SumFracs(SamplesOfDate(1, date))
                     /\ entry_k.temperature_mean_c = MeanFracs(SamplesOfDate(2, date))
                     /\ entry_k.evapotranspiration_mean_mm
                            = MeanFracs(SamplesOfDate(6, date))

\* What the forecast does hold: N entries, entry k dated k days after today
\* and aggregating the 24 samples of the day before that date.
ForecastBucketsOneDayEarly ==
    (om.called /\ ResponseReadable(om.response) /\ HourlyCoversHorizon)
        => /\ om.forecast.type = "list"
           /\ Len(om.forecast.v) = openmeteo_forecast_days
           /\ \A k \in 1..openmeteo_forecast_days :
                 LET entry_k == om.forecast.v[k].v
                     date == Today + k * DayMinutes
                     bucket == date - DayMinutes
                 IN  /\ entry_k.date = FracOfInt(date)
                     /\ Len(SamplesOfDate(1, bucket)) = HoursPerDay
                     /\ entry_k.precipitation_total_mm = SumFracs(SamplesOfDate(1, bucket))
                     /\ entry_k.temperature_mean_c = MeanFracs(SamplesOfDate(2, bucket))

\* C16: a network or parse error during the weather fetch gives None for each
\* of its outputs and no exception: the run goes on to the reconciler, which
\* writes the record and reports the data as not valid.
C16_WeatherFailureIsNotFatal ==
    (om.called /\ ~ResponseReadable(om.response))
        => /\ om.historical.type = "NoneType"
           /\ om.current.type = "NoneType"
           /\ om.forecast.type = "NoneType"
           /\ pc # "except"
           /\ output.finished =>
                 /\ output.written
                 /\ RecordComplete(output.record)
                 /\ vout.returned
                 /\ ~vout.valid

\* The weather call raised and the run wrote its record.
C16_Witness ==
    /\ om.called
    /\ om.response.raises
    /\ output.finished
    /\ output.written

\* ---- claims about the retries of the processing request

\* C17: for a tile with a found scene the request is attempted at most 3
\* times, with one delay between consecutive attempts and none after the
\* last; the first successful attempt is the last one made, and after 3 failed
\* attempts the tile returns no bodies and the count 0.
C17_AtMostThreeAttempts ==
    \A t \in Tiles :
        tile[t].requestCalls > 0 =>
            LET a == tile[t].attempts
                c == tile[t].requestCalls
            IN  /\ c <= 3
                /\ tile[t].sleeps = c - 1
                /\ \A i \in 1..(c - 1) : a[i] = "exc"
                /\ IF a[c] = "ok"
                   THEN tile[t].path # "retries_exhausted"
                   ELSE /\ c = 3
                        /\ tile[t].status = "returned"
                        /\ tile[t].path = "retries_exhausted"
                        /\ tile[t].results = <<>>
                        /\ tile[t].n = 0

\* One worker succeeded at its second attempt and another gave up after three.
C17_Witness ==
    /\ \E t \in Tiles :
          /\ tile[t].requestCalls = 2
          /\ tile[t].sleeps = 1
          /\ tile[t].path = "fetched"
    /\ \E t \in Tiles :
          /\ tile[t].requestCalls = 3
          /\ tile[t].path = "retries_exhausted"

\* ------------------------------------------ "Process TIFFs" on its own

\* Every binary mask of the raster.
MaskRasters == [Pixels -> {0, 1}]

\* Turbidity rasters: inside [-1, 1], all below -1, all above 1, mixed.
TurbidityRasters ==
    {<<1, 0, 0, 0, 0, -1>>, <<-3, -3, -2, -3, -2, -2>>,
     <<3, 2, 5, 2, 4, 2>>, <<-1, 0, 3, -4, 1, 0>>}

\* Chlorophyll rasters: inside [0, 100], above 100, below 0.
ChlorophyllRasters ==
    {<<30, 50, 0, 100, 7, 1>>, <<150, 200, 120, 101, 300, 100>>,
     <<-5, -1, 0, -20, 3, -2>>}

\* The three rasters of tile 1 are on disk.
InitExtract ==
    /\ entry = "process_tiffs"
    /\ run = 1
    /\ pc = "process"
    /\ \E mask \in MaskRasters, turbidity \in TurbidityRasters,
          chlorophyll \in ChlorophyllRasters :
          cache = [t \in Tiles |->
                     IF t = 1
                     THEN [f \in {mask_tiff, turbidity_tiff, chlorophyll_tiff} |->
                             CASE f = mask_tiff -> Tiff("uint8", mask)
                               [] f = turbidity_tiff -> Tiff("float32", turbidity)
                               [] OTHER -> Tiff("float32", chlorophyll)]
                     ELSE EmptyFolder]
    /\ tile = AllPending
    /\ sat = NoSat
    /\ prev = NoSat
    /\ om = NoOm
    /\ chirps = NoChirps
    /\ climate = NoClimate
    /\ vin = NoArgs
    /\ vout = NoVerdict
    /\ output = NoOutput

\* fetch_water_data_for_tile from "Verify file paths" to its return.
ProcessCall ==
    /\ pc = "process"
    /\ entry = "process_tiffs"
    /\ tile' = [tile EXCEPT ![1] =
                    VerifyAndProcess(cache[1], 1, "processed", 0, 0, 0).ret]
    /\ pc' = "done"
    /\ UNCHANGED <<entry, run, cache, sat, prev, om, chirps, climate, vin, vout, output>>

NextExtract == ProcessCall

SpecExtract == InitExtract /\ [][NextExtract]_vars

\* ---- claims about the extractor

\* The water pixels of the mask on disk.
WaterPixels == {p \in Pixels : cache[1][mask_tiff].data[p] = 1}

\* Two different pixels that touch by an edge or a corner.
Neighbours8(p, q) ==
    LET dr == RowOf(p) - RowOf(q)
        dc == ColOf(p) - ColOf(q)
    IN  dr * dr + dc * dc \in {1, 2}

\* p and q are joined by a walk over water pixels whose inner pixels are
\* among the first k pixels.
RECURSIVE Joined(_, _, _)
Joined(p, q, k) ==
    IF k = 0 THEN p = q \/ Neighbours8(p, q)
    ELSE \/ Joined(p, q, k - 1)
         \/ /\ k \in WaterPixels
            /\ Joined(p, k, k - 1)
            /\ Joined(k, q, k - 1)

\* The 8-connected components of the mask, as sets of pixels.
Components8 ==
    {{q \in WaterPixels : Joined(p, q, Cardinality(Pixels))} : p \in WaterPixels}

\* C18: for every binary mask the areas of the returned bodies sum to the
\* number of water pixels times 100, and the number of bodies is the number
\* of 8-connected components of the mask.
C18_AreaAndComponentCount ==
    tile[1].status = "returned" =>
        LET results == tile[1].results
        IN  /\ SumSeq([i \in DOMAIN results |-> results[i].area_m2])
                  = Cardinality(WaterPixels) * 100
            /\ Len(results) = Cardinality(Components8)
            /\ tile[1].n = Cardinality(Components8)
            /\ {results[i].geometry : i \in DOMAIN results} = Components8

\* A mask with two pixels that touch only by a corner gave one body.
C18_Witness ==
    /\ tile[1].status = "returned"
    /\ WaterPixels = {1, 5}
    /\ Len(tile[1].results) = 1
    /\ tile[1].results[1].area_m2 = 200

\* min(max(x, lo), hi) on rationals.
ClampTo(x, lo, hi) ==
    IF FracLT(x, FracOfInt(lo)) THEN FracOfInt(lo)
    ELSE IF FracLT(FracOfInt(hi), x) THEN FracOfInt(hi)
    ELSE x

\* The raw mean of a raster over the pixels of a body.
RawMean(raster, body) ==
    Frac(SumOver(body.geometry, raster), Cardinality(body.geometry))

\* C19: each body's turbidity is the raw mean of its pixels clamped to
\* [-1, 1] and its chlorophyll the raw mean clamped to [0, 100].
C19_MeansAreClamped ==
    tile[1].status = "returned" =>
        \A i \in DOMAIN tile[1].results :
            LET body == tile[1].results[i]
            IN  /\ body.turbidity
                      = ClampTo(RawMean(cache[1][turbidity_tiff].data, body), -1, 1)
                /\ body.chlorophyll
                      = ClampTo(RawMean(cache[1][chlorophyll_tiff].data, body), 0, 100)

\* ---- claims about the summary

\* The sum of a field of the bodies, body by body from the left.
RECURSIVE FieldTotal(_, _, _)
FieldTotal(bodies, field, i) ==
    IF i = 0 THEN Zero
    ELSE FracAdd(FieldTotal(bodies, field, i - 1), bodies[i][field])

RECURSIVE AreaTotal(_, _)
AreaTotal(bodies, i) ==
    IF i = 0 THEN 0 ELSE AreaTotal(bodies, i - 1) + bodies[i].area_m2

FieldAverage(bodies, field) ==
    IF Len(bodies) = 0 THEN Zero
    ELSE LET total == FieldTotal(bodies, field, Len(bodies))
         IN  Frac(total[1], total[2] * Len(bodies))

\* C20: in every result of fetch_water_data, whatever tiles succeeded or
\* failed, total_water_bodies is the number of bodies in the list,
\* total_area_m2 the sum of their areas, and avg_turbidity and
\* avg_chlorophyll the means over the list, both 0 for an empty list.
C20_SummaryMatchesList ==
    sat.status = "returned" =>
        /\ sat.summary.total_water_bodies = Len(sat.results)
        /\ sat.summary.total_area_m2 = AreaTotal(sat.results, Len(sat.results))
        /\ sat.summary.avg_turbidity = FieldAverage(sat.results, "turbidity")
        /\ sat.summary.avg_chlorophyll = FieldAverage(sat.results, "chlorophyll")

\* A result with bodies from some tiles while another tile failed.
C20_Witness ==
    /\ sat.status = "returned"
    /\ Len(sat.results) >= 3
    /\ \E t \in Tiles : tile[t].path \in FailurePaths
    /\ \E t \in Tiles : tile[t].path = "fetched" /\ tile[t].n > 0

\* Every tile failed: the list is empty and the averages are 0.
C20_WitnessEmpty ==
    /\ sat.status = "returned"
    /\ sat.results = <<>>
    /\ sat.summary.avg_turbidity = Zero

\* ------------------------------------------------ validate_tiff on its own

\* The values a raster on disk may hold.
RasterValues ==
    {<<0, 0, 0, 0, 0, 0>>, <<1, 0, 0, 0, 0, 1>>, <<0, 1, 0, 2, 0, 1>>,
     <<1, 0, 0, 0, 0, -1>>, <<-3, 0, 1, 0, 0, 0>>, <<0, 3, 1, -1, 0, 0>>,
     <<30, 50, 0, 100, 7, 1>>, <<150, 20, 0, 0, 1, 100>>, <<-5, 10, 0, 0, 3, 2>>}

RasterShapes == {expected_shape, <<3, 2>>}

\* The dtype each file is validated against by the cache test.
ExpectedDtype(f) == IF f = mask_tiff THEN "uint8" ELSE "float32"

\* One file is on disk in the folder of tile 1: any of the three names, of
\* either dtype and shape. A uint8 file holds no negative value.
InitTiff ==
    /\ entry = "validate_tiff"
    /\ run = 1
    /\ pc = "validate_tiff"
    /\ \E name \in {mask_tiff, turbidity_tiff, chlorophyll_tiff},
          dtype \in {"uint8", "float32"}, shape \in RasterShapes,
          data \in RasterValues :
          /\ dtype = "uint8" => \A i \in DOMAIN data : data[i] >= 0
          /\ cache = [t \in Tiles |->
                        IF t = 1
                        THEN [f \in {mask_tiff, turbidity_tiff, chlorophyll_tiff} |->
                                IF f = name
                                THEN [exists |-> TRUE, shape |-> shape,
                                      dtype |-> dtype, data |-> data]
                                ELSE NoFile]
                        ELSE EmptyFolder]
    /\ tile = AllPending
    /\ sat = NoSat
    /\ prev = NoSat
    /\ om = NoOm
    /\ chirps = NoChirps
    /\ climate = NoClimate
    /\ vin = NoArgs
    /\ vout = NoVerdict
    /\ output = NoOutput

\* validate_tiff is called on file f of the folder, against the dtype the
\* cache test expects of it; tile[1] keeps the file name and the answer.
ValidateTiffCall(f) ==
    /\ pc = "validate_tiff"
    /\ entry = "validate_tiff"
    /\ tile' = [tile EXCEPT ![1] =
                    [Pending EXCEPT
                        !.status = IF validate_tiff(f, cache[1][f], ExpectedDtype(f))
                                   THEN "accepted" ELSE "rejected",
                        !.path = f]]
    /\ pc' = "done"
    /\ UNCHANGED <<entry, run, cache, sat, prev, om, chirps, climate, vin, vout, output>>

NextTiff == \E f \in {mask_tiff, turbidity_tiff, chlorophyll_tiff} : ValidateTiffCall(f)

SpecTiff == InitTiff /\ [][NextTiff]_vars

\* ---- claims about validate_tiff

\* The values of a raster lie in the domain of the output type of file f.
InValueDomain(f, data) ==
    CASE f = mask_tiff -> \A i \in DOMAIN data : data[i] \in {0, 1}
      [] f = turbidity_tiff -> \A i \in DOMAIN data : data[i] >= -1 /\ data[i] <= 1
      [] OTHER -> \A i \in DOMAIN data : data[i] >= 0 /\ data[i] <= 100

\* C21: validate_tiff accepts a raster exactly when it has the expected shape
\* and dtype, is not all-zero, and its values lie in the domain of its own
\* output type; a chlorophyll raster with values between 1 and 100 is accepted.
C21_AcceptsExactlyValidRasters ==
    tile[1].status \in {"accepted", "rejected"} =>
        LET f == tile[1].path
            file == cache[1][f]
        IN  tile[1].status = "accepted"
                <=> /\ file.exists
                    /\ file.shape = expected_shape
                    /\ file.dtype = ExpectedDtype(f)
                    /\ \E i \in DOMAIN file.data : file.data[i] # 0
                    /\ InValueDomain(f, file.data)

\* ----------------------------------- one tile worker on a folder on disk

\* A response whose turbidity and chlorophyll lie outside their ranges.
RastersOutOfRange ==
    DataDict([f \in {mask_tiff, turbidity_tiff, chlorophyll_tiff} |->
        CASE f = mask_tiff -> <<1, 1, 0, 0, 0, 1>>
          [] f = turbidity_tiff -> <<3, 3, 0, 0, 0, -4>>
          [] OTHER -> <<150, 250, 0, 0, 0, -5>>])

WorkerScenarios ==
    TileScenarios \cup {Scenario("found", AllOk, RastersOutOfRange)}

\* The folder of tile 1 as an earlier run or a stranger left it: empty, with
\* the mask only, or complete with any mask and rasters in or out of range.
InitWorker ==
    /\ entry = "fetch_water_data_for_tile"
    /\ run = 1
    /\ pc = "worker"
    /\ \E kind \in {"empty", "partial", "complete"}, mask \in MaskRasters,
          turbidity \in TurbidityRasters, chlorophyll \in ChlorophyllRasters :
          cache = [t \in Tiles |->
                     IF t # 1 \/ kind = "empty" THEN EmptyFolder
                     ELSE [f \in {mask_tiff, turbidity_tiff, chlorophyll_tiff} |->
                             CASE f = mask_tiff -> Tiff("uint8", mask)
                               [] kind = "partial" -> NoFile
                               [] f = turbidity_tiff -> Tiff("float32", turbidity)
                               [] OTHER -> Tiff("float32", chlorophyll)]]
    /\ tile = AllPending
    /\ sat = NoSat
    /\ prev = NoSat
    /\ om = NoOm
    /\ chirps = NoChirps
    /\ climate = NoClimate
    /\ vin = NoArgs
    /\ vout = NoVerdict
    /\ output = NoOutput

\* fetch_water_data_for_tile for tile 1, from its first line to its return or
\* its exception.
WorkerCall ==
    /\ pc = "worker"
    /\ entry = "fetch_water_data_for_tile"
    /\ \E sc \in WorkerScenarios :
          LET o == fetch_water_data_for_tile(cache[1], 1, sc)
          IN  /\ tile' = [tile EXCEPT ![1] =
                             [o.ret EXCEPT !.attempts =
                                 IF o.ret.requestCalls > 0 THEN sc.attempts ELSE <<>>]]
              /\ cache' = [cache EXCEPT ![1] = o.folder]
    /\ pc' = "done"
    /\ UNCHANGED <<entry, run, sat, prev, om, chirps, climate, vin, vout, output>>

NextWorker == WorkerCall

SpecWorker == InitWorker /\ [][NextWorker]_vars

\* ---- claims about rasters that fail validation

\* File f has the expected shape and dtype, is not all-zero and holds values
\* of the domain of its output type.
RasterValid(f, file) ==
    /\ file.exists
    /\ file.shape = expected_shape
    /\ file.dtype = ExpectedDtype(f)
    /\ \E i \in DOMAIN file.data : file.data[i] # 0
    /\ InValueDomain(f, file.data)

FolderValid(folder) ==
    \A f \in {mask_tiff, turbidity_tiff, chlorophyll_tiff} : RasterValid(f, folder[f])

\* C22: a raster that fails validation is never turned into water bodies: a
\* worker that finds a complete folder with a failing raster treats it as a
\* cache miss and fetches again, and a worker whose downloaded rasters fail
\* returns no bodies and the count 0.
C22_InvalidRasterNeverProcessed ==
    tile[1].status # "pending" =>
        /\ (tile[1].catalogCalls = 0 /\ AllFilesExist(cache[1]) /\ ~FolderValid(cache[1]))
              => FALSE
        /\ (tile[1].path = "fetched" /\ ~FolderValid(cache[1]))
              => (tile[1].status = "returned" /\ tile[1].results = <<>> /\ tile[1].n = 0)
        /\ tile[1].results # <<>> => FolderValid(cache[1])

\* C22, the cached half alone: a complete folder with a failing raster makes
\* the worker search the catalog again.
InvalidCacheIsRefetched ==
    tile[1].status # "pending" =>
        ~(tile[1].catalogCalls = 0 /\ AllFilesExist(cache[1]) /\ ~FolderValid(cache[1]))

\* C22, the downloaded half alone.
InvalidDownloadIsDropped ==
    (tile[1].path = "fetched" /\ ~FolderValid(cache[1]))
        => (tile[1].results = <<>> /\ tile[1].n = 0)

\* ---- claims about the primary estimate

\* The entries of a series that are numbers.
NonNaNEntries(series) ==
    LET IsNumber(x) == ~IsNaN(x) IN SelectSeq(series, IsNumber)

\* The primary tier gave the estimate: the fallback was not called.
PrimaryGaveEstimate == climate.returned /\ om.called /\ ~chirps.called

\* C23: when the primary tier succeeds the estimate is the arithmetic mean of
\* the non-NaN entries of the precipitation series: NaN entries count neither
\* in the sum nor in the divisor.
C23_MeanOverNonNaNEntries ==
    PrimaryGaveEstimate =>
        /\ climate.precip.type = "float"
        /\ climate.precip.v
              = MeanFracs(NonNaNEntries(om.response.hourly.vars[variable_map.precipitation]))

\* What the estimate is: the sum of the non-NaN entries over the length of
\* the whole series, NaN entries counted as 0.
MeanOverAllEntries ==
    PrimaryGaveEstimate =>
        LET series == om.response.hourly.vars[variable_map.precipitation]
            total == SumFracs(NonNaNEntries(series))
        IN  /\ climate.precip.type = "float"
            /\ climate.precip.v = Frac(total[1], total[2] * Len(series))

\* ---- claims about the forecast buckets

\* The hourly samples of the response that day bucket d of a variable is
\* taken from: positions (d - 1) * 24 .. d * 24 of the last
\* openmeteo_forecast_days * 24 samples.
BucketSamples(hourly, idx, d) ==
    Slice(LastK(hourly.vars[idx], openmeteo_forecast_days * HoursPerDay),
          (d - 1) * HoursPerDay, d * HoursPerDay)

\* The bucket has no data: every sample is missing, or the series does not
\* reach the bucket.
BucketHasNoData(hourly, idx, d) ==
    \A i \in DOMAIN BucketSamples(hourly, idx, d) :
        IsNaN(BucketSamples(hourly, idx, d)[i])

\* The aggregate of a variable in one entry of the forecast.
AggregateOf(day, idx) ==
    CASE idx = 1 -> day.v.precipitation_total_mm
      [] idx = 2 -> day.v.temperature_mean_c
      [] idx = 3 -> day.v.relative_humidity_mean_percent
      [] idx = 4 -> day.v.soil_moisture_mean_m3_m3
      [] idx = 5 -> day.v.wind_speed_mean_kmh
      [] idx = 6 -> day.v.evapotranspiration_mean_mm

\* C24: in the forecast, a day bucket without data for a field (all samples
\* missing, or the hourly series too short to reach the bucket) reports 0 for
\* the field, the sum and every mean alike.
C24_EmptyBucketReportsZero ==
    om.forecast.type = "list" =>
        \A d \in DOMAIN om.forecast.v : \A idx \in 1..6 :
            BucketHasNoData(om.response.hourly, idx, d)
                => AggregateOf(om.forecast.v[d], idx) = Zero

\* No sample of the variable in the forecast period is a number.
ForecastPeriodMissing(hourly, idx) ==
    LET values == LastK(hourly.vars[idx], openmeteo_forecast_days * HoursPerDay)
    IN  \A i \in DOMAIN values : IsNaN(values[i])

\* What holds: the sum of a bucket without data is 0, and so is the mean of
\* a bucket whose samples are all missing or whose variable has no number in
\* the whole forecast period; the mean of a bucket that a series with numbers
\* does not reach is NaN.
EmptyBucketMeanIsNaN ==
    om.forecast.type = "list" =>
        \A d \in DOMAIN om.forecast.v : \A idx \in 1..6 :
            LET samples == BucketSamples(om.response.hourly, idx, d)
                missing == ForecastPeriodMissing(om.response.hourly, idx)
            IN  /\ BucketHasNoData(om.response.hourly, idx, d)
                   /\ (idx = 1 \/ samples # <<>> \/ missing)
                      => AggregateOf(om.forecast.v[d], idx) = Zero
                /\ samples = <<>> /\ idx # 1 /\ ~missing
                      => IsNaN(AggregateOf(om.forecast.v[d], idx))

\* A forecast with a bucket that the hourly series does not reach.
BucketNotReached ==
    /\ om.forecast.type = "list"
    /\ \E d \in DOMAIN om.forecast.v :
            /\ BucketSamples(om.response.hourly, 2, d) = <<>>
            /\ ~ForecastPeriodMissing(om.response.hourly, 2)

\* ---------------------------------- one run of main.py, from start to end

\* The disk at the start of a run: each tile folder is empty or holds the
\* three files that an earlier run saved.
InitTerminates ==
    /\ entry = "main"
    /\ run = 1
    /\ pc = "tiles"
    /\ cache \in [Tiles -> {EmptyFolder, SaveTiffs(EmptyFolder, RastersA.dict)}]
    /\ tile = AllPending
    /\ sat = NoSat
    /\ prev = NoSat
    /\ om = NoOm
    /\ chirps = NoChirps
    /\ climate = NoClimate
    /\ vin = NoArgs
    /\ vout = NoVerdict
    /\ output = NoOutput

NextTerminates ==
    \/ \E t \in Tiles : TileWorker(t, PipelineTileScenarios)
    \/ FetchWaterDataReturns
    \/ FetchWaterDataRaises
    \/ FetchOpenMeteo(PipelineOmScenarios)
    \/ ChirpsAttempt(ArchiveAnswers)
    \/ ChirpsExhausted
    \/ ValidateAndWrite
    \/ AssembleFails

\* The pool runs every worker it was given, and the interpreter runs the
\* statement that is next: no step that can be taken is put off for ever.
\* FetchWaterDataReturns and FetchOpenMeteo assign a value to every variable
\* for every input and move pc, so each can be taken exactly when its guard
\* holds; their weak fairness is written with the guard.
MergeRuns ==
    \/ []<>~(pc = "tiles" /\ TilesFinished /\ \A t \in Tiles : tile[t].status = "returned")
    \/ []<><<FetchWaterDataReturns>>_vars
WeatherFetchRuns ==
    []<>(pc # "climate") \/ []<><<FetchOpenMeteo(PipelineOmScenarios)>>_vars

SpecTerminates ==
    /\ InitTerminates /\ [][NextTerminates]_vars
    /\ WF_vars(\E t \in Tiles : TileWorker(t, PipelineTileScenarios))
    /\ MergeRuns
    /\ WF_vars(FetchWaterDataRaises)
    /\ WeatherFetchRuns
    /\ WF_vars(ChirpsAttempt(ArchiveAnswers))
    /\ WF_vars(ChirpsExhausted)
    /\ WF_vars(ValidateAndWrite)
    /\ WF_vars(AssembleFails)

\* ---- claims about termination

\* The walk of the secondary tier: attempt k, counted from 0, is for the k-th
\* day before the day before the run, and there are at most max_attempts of
\* them; after the last one the function has returned.
WalkIsBounded ==
    chirps.called =>
        /\ chirps.attempt \in 0..max_attempts
        /\ chirps.day = -1 - chirps.attempt
        /\ (chirps.attempt = max_attempts /\ pc # "chirps") => climate.returned

\* A worker sends at most three processing requests.
RequestsAreBounded == \A t \in Tiles : tile[t].requestCalls \in 0..3

\* C25: every fallback and retry chain terminates: the secondary tier makes
\* at most 30 download attempts, on consecutive earlier days from the day
\* before the run, and then returns failure; a tile makes at most 3
\* processing requests; a run always reaches its end, whatever the providers
\* answer.
C25_RunTerminates ==
    /\ [](WalkIsBounded /\ RequestsAreBounded)
    /\ <>[](pc = "done" /\ output.finished)

\* A run that ended after a walk of 30 failed downloads and a tile that sent
\* three requests.
C25_Witness ==
    /\ pc = "done"
    /\ chirps.called /\ chirps.attempt = max_attempts /\ chirps.day = -1 - max_attempts
    /\ \E t \in Tiles : tile[t].requestCalls = 3

\* ------------------------------------------- fetch_water_data on its own

\* What the imagery service answers to the workers of the pool: rasters with
\* two bodies at the first call, rasters with one body at the second call, or
\* three failed calls.
MergeScenarios ==
    {Scenario("found", AllOk, RastersA),
     Scenario("found", FailsThenOk(1), RastersB),
     Scenario("found", AllFail, NotAList)}

InitMerge ==
    /\ entry = "fetch_water_data"
    /\ run = 1
    /\ pc = "tiles"
    /\ cache = [t \in Tiles |-> EmptyFolder]
    /\ tile = AllPending
    /\ sat = NoSat
    /\ prev = NoSat
    /\ om = NoOm
    /\ chirps = NoChirps
    /\ climate = NoClimate
    /\ vin = NoArgs
    /\ vout = NoVerdict
    /\ output = NoOutput

NextMerge ==
    \/ \E t \in Tiles : TileWorker(t, MergeScenarios)
    \/ FetchWaterDataReturns

SpecMerge == InitMerge /\ [][NextMerge]_vars

\* ---- claims about the merged list

\* Body a comes before body b: by tile id, then by label.
IdBefore(a, b) ==
    \/ a.id[1] < b.id[1]
    \/ a.id[1] = b.id[1] /\ a.id[2] < b.id[2]

\* C26: the merged list does not depend on the order in which the four
\* workers end: it is the bodies of tile 1, then of tile 2, 3 and 4, each
\* tile's bodies in label order, and no two bodies have the same id.
C26_MergedInTileOrder ==
    sat.status = "returned" =>
        /\ \A i, j \in DOMAIN sat.results :
                i < j => IdBefore(sat.results[i], sat.results[j])
        /\ \A i, j \in DOMAIN sat.results :
                sat.results[i].id = sat.results[j].id => i = j
        /\ \A t \in Tiles : \A k \in 1..tile[t].n :
                \E i \in DOMAIN sat.results :
                    /\ sat.results[i] = tile[t].results[k]
                    /\ sat.results[i].id = <<t, k>>
        /\ Len(sat.results) = SumSeq([t \in Tiles |-> tile[t].n])

\* A merged list of a pool whose workers ended in the order 4, 3, 2, 1, each
\* with bodies.
C26_Witness ==
    /\ sat.status = "returned"
    /\ \A t \in Tiles : tile[t].rank = 5 - t /\ tile[t].n > 0
    /\ \E t \in Tiles : tile[t].n = 2

\* ---- claims about the precipitation estimate in the pipeline

\* C27: fetch_climate_data never returns None as the precipitation estimate:
\* whatever the two tiers did, the reconciler is handed a number, the
\* record's precipitation is never the marker "unavailable", and the
\* precipitation domain never fails validation.
C27_PrecipitationNeverNull ==
    /\ climate.returned => climate.precip.type = "float"
    /\ vin.called =>
          /\ vin.precip = climate.precip
          /\ PrecipDomainValid
          /\ CheckPrecip(TRUE, vin.precip)
    /\ output.written =>
          /\ ~IsUnavailable(output.record.climate.precipitation_imerg_mm_per_hr)
          /\ output.record.climate.precipitation_imerg_mm_per_hr = climate.precip

\* A record written after the primary tier gave no estimate and the walk
\* over the archive used up its attempts.
C27_Witness ==
    /\ output.written
    /\ om.called /\ PrimaryPrecip(om.historical).type = "NoneType"
    /\ chirps.called /\ chirps.attempt = max_attempts
    /\ output.record.climate.precipitation_imerg_mm_per_hr = PyFloat(Zero)

====
